---- MODULE Spec2Model ----
(***************************************************************************)
(* mysql2-helper: the query execution pipeline (cache, hooks, execution),  *)
(* the transaction coordinator and the fluent query builder, as state      *)
(* machines.  One asynchronous call is a process whose steps are the       *)
(* stretches of code between two awaits.                                   *)
(***************************************************************************)
EXTENDS Integers, Sequences, FiniteSets, TLC

\* ---------------------------------------------------------------------------
\* Bounds of the model
\* ---------------------------------------------------------------------------
MaxTime == 3
MaxHooks == 3
MaxWrites == 2
MaxClauses == 2
MaxOps == 2
MaxRows == 3
MaxCalls == 3
MaxItems == 3
MaxTotal == 40
MaxConcurrency == 2
MaxRetry == 4
PoolSize == 2
ConfigCacheTTL == 2

\* ---------------------------------------------------------------------------
\* Program constants and input domains
\* ---------------------------------------------------------------------------
Stages == {"beforeQuery", "afterQuery", "onError",
           "beforeInsert", "afterInsert", "beforeUpdate", "afterUpdate"}
QueryStages == {"beforeQuery", "afterQuery", "onError"}
Callbacks == {"h1", "h2"}
QueryCalls == {1, 2}
MaxClears == 1

\* statements a caller may pass: sql text and parameter vector
Statements == {<<"sqlA", <<"NaN">>>>, <<"sqlA", <<"null">>>>, <<"sqlB", << >>>>}
TTLOptions == {"undefined", "1"}
\* options of a call: { cache: false } or { cacheTTL } or none
QueryOptions == {[cache |-> FALSE, cacheTTL |-> "undefined"]}
                  \cup {[cache |-> TRUE, cacheTTL |-> t] : t \in TTLOptions}
NoConn == -1
Standalone == 0
PoolConns == 1..PoolSize
Conns == {Standalone} \cup PoolConns

TxCalls == {1, 2}
Writes == TxCalls \X (1..(MaxWrites + 1))

VARIABLES now, pool, connection, cacheEnabled, cacheTTL, hooks, regLog,
          cache, q, checkedOut, tx, txOpen, pending, committed,
          qb, op, issued, calls, cloned,
          config, bi, bp, cn,
          ah, pg, queryLog, poolsCreated

qvars == <<now, pool, connection, cacheEnabled, cacheTTL, hooks, regLog,
           cache, q, checkedOut>>
txvars == <<tx, txOpen, pending, committed>>
bvars == <<qb, op, issued, calls, cloned>>
xvars == <<config, bi, bp, cn>>
yvars == <<ah, pg, queryLog, poolsCreated>>
vars == <<qvars, txvars, bvars, xvars, yvars>>

\* ---------------------------------------------------------------------------
\* Values
\* ---------------------------------------------------------------------------
NoErr == [src |-> "none", cb |-> "-"]
DriverErr == [src |-> "driver", cb |-> "-"]
HookErr(stage, cb) == [src |-> stage, cb |-> cb]

Ev(name, stage, cb, err) == [ev |-> name, stage |-> stage, cb |-> cb, err |-> err]

TTLValue(t) == IF t = "1" THEN 1 ELSE 0

\* JSON.stringify of one parameter: NaN and null both print as null
JSONstringifyValue(v) == IF v \in {"NaN", "null"} THEN "null" ELSE v

RECURSIVE JSONstringify(_)
JSONstringify(params) ==
  IF params = << >> THEN << >>
  ELSE <<JSONstringifyValue(Head(params))>> \o JSONstringify(Tail(params))

_getCacheKey(sql, params) == <<sql, JSONstringify(params)>>

CacheFresh_m(store, key, t) == key \in DOMAIN store /\ t <= store[key].expiry

\* the entry _getFromCache answers with: present and not yet expired
CacheFresh(store, key, t) == key \in DOMAIN store /\ t < store[key].expiry

\* the map after _getFromCache(key): a stale entry is deleted on the read
_getFromCache(store, key, t) ==
  IF key \in DOMAIN store /\ ~CacheFresh(store, key, t)
  THEN [k \in DOMAIN store \ {key} |-> store[k]]
  ELSE store

\* ttl = this.cacheTTL is a default parameter: used only for undefined
EffectiveTTL(ttlOpt, dflt) == IF ttlOpt = "undefined" THEN dflt ELSE TTLValue(ttlOpt)

_setCache_m(store, key, data, ttl, t) ==
  IF key \in DOMAIN store THEN store
  ELSE [k \in DOMAIN store \cup {key} |->
          IF k = key THEN [data |-> data, expiry |-> t + ttl] ELSE store[k]]

_setCache(store, key, data, ttl, t) ==
  [k \in DOMAIN store \cup {key} |->
     IF k = key THEN [data |-> data, expiry |-> t + ttl] ELSE store[k]]

UseCache_m(opts) == cacheEnabled

\* if (this.cacheEnabled && options.cache !== false)
UseCache(opts) == cacheEnabled /\ opts.cache

IdleCall == [pc |-> "idle", sql |-> "-", params |-> << >>,
             opts |-> [cache |-> TRUE, cacheTTL |-> "undefined"],
             stage |-> "-", itArr |-> << >>, itLive |-> FALSE,
             idx |-> 0, running |-> FALSE, via |-> "-", conn |-> NoConn,
             rows |-> 0,
             error |-> NoErr, status |-> "pending", value |-> 0,
             rejection |-> [wrapped |-> FALSE, cause |-> NoErr],
             execs |-> 0, trace |-> << >>]

\* ---------------------------------------------------------------------------
\* Hook pipeline
\* ---------------------------------------------------------------------------
HookPush_m(list, cb) == <<cb>> \o list

HookPush(list, cb) == Append(list, cb)

\* names a caller may pass to addHook: the stages, a name the hooks table does
\* not have, and a name it inherits from Object.prototype
HookNames == Stages \cup {"beforeDelete", "constructor"}

Inherited == {"constructor"}

IdleHookCall == [call |-> "-", name |-> "-", cb |-> "-", threw |-> "none"]

Throws_m(hookName) ==
  IF hookName \in Stages THEN "none"
  ELSE IF hookName \in Inherited THEN "TypeError" ELSE "none"

\* what addHook(hookName, callback) throws: nothing for a stage; for an
\* inherited name this.hooks[hookName] is a function without push; any other
\* name takes the else branch
Throws(hookName) ==
  IF hookName \in Stages THEN "none"
  ELSE IF hookName \in Inherited THEN "TypeError" ELSE "Error"

\* addHook(hookName, callback): push onto the stage's array, which every
\* iteration still walking that same array object sees, or throw
addHook(stage, cb) ==
  /\ ah' = [call |-> "addHook", name |-> stage, cb |-> cb, threw |-> Throws(stage)]
  /\ IF stage \in Stages /\ Throws(stage) = "none"
     THEN /\ hooks' = [hooks EXCEPT ![stage] = HookPush(@, cb)]
          /\ regLog' = [regLog EXCEPT ![stage] = Append(@, cb)]
          /\ q' = [c \in QueryCalls |->
                     IF q[c].stage = stage /\ q[c].itLive
                     THEN [q[c] EXCEPT !.itArr = HookPush(@, cb)]
                     ELSE q[c]]
     ELSE UNCHANGED <<hooks, regLog, q>>
  /\ UNCHANGED <<now, pool, connection, cacheEnabled, cacheTTL, cache, checkedOut, txvars, bvars, xvars, pg, queryLog, poolsCreated>>

\* removeHook(hookName, callback): if this.hooks[hookName] is truthy the
\* stage gets a new array without the callback (a loop of _runHooks under way
\* keeps the old one); for an inherited name that value is a function without
\* filter; any other name is passed over in silence
removeHook(hookName, cb) ==
  LET Keep(x) == x # cb
  IN /\ ah' = [call |-> "removeHook", name |-> hookName, cb |-> cb,
               threw |-> IF hookName \in Inherited THEN "TypeError" ELSE "none"]
     /\ IF hookName \in Stages
        THEN /\ hooks' = [hooks EXCEPT ![hookName] = SelectSeq(@, Keep)]
             /\ regLog' = [regLog EXCEPT ![hookName] = SelectSeq(@, Keep)]
        ELSE UNCHANGED <<hooks, regLog>>
     /\ UNCHANGED <<now, pool, connection, cacheEnabled, cacheTTL, cache, q,
                    checkedOut, txvars, bvars, xvars, pg, queryLog, poolsCreated>>

\* the callbacks the loop of _runHooks starts when it is entered or resumed at
\* position i of array arr: the next one only
StartedAt(arr, i) == IF i < Len(arr) THEN <<arr[i + 1]>> ELSE << >>

RECURSIVE StartEvents(_, _)
StartEvents(stage, cbs) ==
  IF cbs = << >> THEN << >>
  ELSE <<Ev("hookStart", stage, Head(cbs), NoErr)>> \o StartEvents(stage, Tail(cbs))

\* _runHooks(stage, data) up to its first await
EnterStage(r, stage) ==
  LET arr == hooks[stage]
      started == StartedAt(arr, 0)
  IN [r EXCEPT !.pc = stage, !.stage = stage, !.itArr = arr,
               !.idx = 0, !.running = (started # << >>),
               !.itLive = (started # << >>),
               !.trace = @ \o StartEvents(stage, started)]

\* ---------------------------------------------------------------------------
\* query(sql, params, options)
\* ---------------------------------------------------------------------------
CacheHitReturn_m(r, entry) ==
  EnterStage([r EXCEPT !.value = entry.data,
                       !.trace = @ \o <<Ev("cacheHit", "-", "-", NoErr)>>],
             "beforeQuery")

\* what a cache hit does with the call
CacheHitReturn(r, entry) ==
  [r EXCEPT !.pc = "done", !.status = "resolved", !.value = entry.data,
            !.trace = @ \o <<Ev("cacheHit", "-", "-", NoErr)>>]

\* query() up to its first await: cache lookup, then the first beforeQuery
\* hook is started
QueryStart(c, sql, params, opts) ==
  LET key == _getCacheKey(sql, params)
      r0 == [IdleCall EXCEPT !.sql = sql, !.params = params, !.opts = opts]
  IN IF UseCache(opts)
     THEN IF CacheFresh(cache, key, now)
          THEN /\ q' = [q EXCEPT ![c] = CacheHitReturn(r0, cache[key])]
               /\ cache' = cache
          ELSE /\ q' = [q EXCEPT ![c] =
                         EnterStage([r0 EXCEPT !.trace = <<Ev("cacheMiss", "-", "-", NoErr)>>],
                                    "beforeQuery")]
               /\ cache' = _getFromCache(cache, key, now)
     ELSE /\ q' = [q EXCEPT ![c] = EnterStage(r0, "beforeQuery")]
          /\ cache' = cache

\* a caller calls query()
QueryCall(c, sql, params, opts) ==
  /\ q[c].pc = "idle"
  /\ \A d \in QueryCalls : d < c => q[d].pc # "idle"
  /\ QueryStart(c, sql, params, opts)
  /\ UNCHANGED <<now, pool, connection, cacheEnabled, cacheTTL, hooks, regLog, checkedOut, txvars, bvars, xvars, yvars>>

\* a callback's promise settles and the loop of _runHooks goes on (or throws)
HookResume(c, ok) ==
  /\ q[c].pc \in QueryStages
  /\ q[c].running
  /\ LET r == q[c]
         cb == r.itArr[r.idx + 1]
         started == StartedAt(r.itArr, r.idx + 1)
         err == HookErr(r.stage, cb)
     IN IF ok
        THEN q' = [q EXCEPT ![c] =
                     [r EXCEPT !.idx = @ + 1, !.running = (started # << >>),
                               !.itLive = (started # << >>),
                               !.trace = @ \o <<Ev("hookEnd", r.stage, cb, NoErr)>>
                                           \o StartEvents(r.stage, started)]]
        ELSE LET r1 == [r EXCEPT !.running = FALSE, !.itLive = FALSE,
                                 !.trace = @ \o <<Ev("hookEnd", r.stage, cb, err)>>]
             IN IF r.stage = "onError"
                \* the rejection of _runHooks leaves the catch block as it is
                THEN q' = [q EXCEPT ![c] =
                             [r1 EXCEPT !.pc = "done", !.status = "rejected",
                                        !.rejection = [wrapped |-> FALSE, cause |-> err]]]
                ELSE q' = [q EXCEPT ![c] =
                             EnterStage([r1 EXCEPT !.error = err], "onError")]
  /\ UNCHANGED <<now, pool, connection, cacheEnabled, cacheTTL, hooks, regLog,
                 cache, checkedOut, txvars, bvars, xvars, yvars>>

StageReturned(c, stage) ==
  /\ q[c].pc = stage
  /\ q[c].stage = stage
  /\ ~q[c].running

CreatesPool_m == TRUE

\* createPool(): if (!this.pool)
CreatesPool == ~pool

\* createPool() called by a caller: the pool is there when it returns
createPool ==
  /\ pool' = TRUE
  /\ poolsCreated' = poolsCreated + (IF CreatesPool THEN 1 ELSE 0)
  /\ UNCHANGED <<now, connection, cacheEnabled, cacheTTL, hooks, regLog, cache, q,
                 checkedOut, txvars, bvars, xvars, ah, pg, queryLog>>

\* beforeQuery hooks are through: resolve the executor and call execute on it
BeforeQueryReturn(c) ==
  /\ StageReturned(c, "beforeQuery")
  /\ IF pool \/ connection
     THEN /\ q' = [q EXCEPT ![c] = [@ EXCEPT !.pc = "execute",
                                             !.via = IF pool THEN "pool" ELSE "connection"]]
          /\ pool' = pool
          /\ poolsCreated' = poolsCreated
     ELSE \* createPool() runs to its end synchronously; query awaits its promise
          /\ q' = [q EXCEPT ![c] = [@ EXCEPT !.pc = "createPool"]]
          /\ pool' = TRUE
          /\ poolsCreated' = poolsCreated + (IF CreatesPool THEN 1 ELSE 0)
  /\ UNCHANGED <<now, connection, cacheEnabled, cacheTTL, hooks, regLog, cache,
                 checkedOut, txvars, bvars, xvars, ah, pg, queryLog>>

CreatePoolReturn(c) ==
  /\ q[c].pc = "createPool"
  /\ (pool \/ connection)
  /\ q' = [q EXCEPT ![c] = [@ EXCEPT !.pc = "execute",
                                    !.via = IF pool THEN "pool" ELSE "connection"]]
  /\ UNCHANGED <<now, pool, connection, cacheEnabled, cacheTTL, hooks, regLog,
                 cache, checkedOut, txvars, bvars, xvars, yvars>>

\* the pool hands out a free connection; pooled connections are
\* interchangeable, so it is taken to be the first free one
FirstFree(k) ==
  /\ k \in PoolConns
  /\ ~checkedOut[k]
  /\ \A j \in PoolConns : j < k => checkedOut[j]

\* the driver puts the statement on a connection: pool.execute takes a free
\* pooled connection for the statement, connection.execute uses the connection
ExecDispatch(c, k) ==
  /\ q[c].pc = "execute"
  /\ q[c].conn = NoConn
  /\ IF q[c].via = "pool"
     THEN /\ FirstFree(k)
          /\ checkedOut' = [checkedOut EXCEPT ![k] = TRUE]
     ELSE /\ k = Standalone
          /\ checkedOut' = checkedOut
  /\ q' = [q EXCEPT ![c] = [@ EXCEPT !.conn = k, !.execs = @ + 1,
                                    !.trace = @ \o <<Ev("execute", "-", "-", NoErr)>>]]
  /\ UNCHANGED <<now, pool, connection, cacheEnabled, cacheTTL, hooks, regLog, cache, txvars, bvars, xvars, yvars>>

\* if (this.logQueries) this.queryLog.push(...)
LogEvents == IF config.logQueries THEN <<Ev("queryLog", "-", "-", NoErr)>> ELSE << >>

\* execute settles: rows (a new object per execution) or a driver error
ExecEnd(c, ok) ==
  /\ q[c].pc = "execute"
  /\ q[c].conn # NoConn
  /\ checkedOut' = IF q[c].via = "pool"
                   THEN [checkedOut EXCEPT ![q[c].conn] = FALSE]
                   ELSE checkedOut
  /\ LET r == [q[c] EXCEPT !.conn = NoConn]
     IN IF ok
        THEN /\ q' = [q EXCEPT ![c] =
                        EnterStage([r EXCEPT !.rows = c,
                                             !.trace = @ \o <<Ev("executeEnd", "-", "-", NoErr)>>
                                                         \o LogEvents],
                                   "afterQuery")]
             /\ queryLog' = IF config.logQueries
                            THEN Append(queryLog, [sql |-> r.sql, params |-> r.params])
                            ELSE queryLog
        ELSE /\ q' = [q EXCEPT ![c] =
                        EnterStage([r EXCEPT !.error = DriverErr,
                                             !.trace = @ \o <<Ev("executeEnd", "-", "-", DriverErr)>>],
                                   "onError")]
             /\ queryLog' = queryLog
  /\ UNCHANGED <<now, pool, connection, cacheEnabled, cacheTTL, hooks, regLog, cache, txvars, bvars, xvars, ah, pg, poolsCreated>>

Finish_m(r) ==
  <<Ev("queryExecuted", "-", "-", NoErr)>>
  \o (IF UseCache(r.opts) THEN <<Ev("cacheWrite", "-", "-", NoErr)>> ELSE << >>)

\* what query() does after the afterQuery hooks, in order: the cache write if
\* caching, then the queryExecuted signal
Finish(r) ==
  (IF UseCache(r.opts) THEN <<Ev("cacheWrite", "-", "-", NoErr)>> ELSE << >>)
  \o <<Ev("queryExecuted", "-", "-", NoErr)>>

\* afterQuery hooks are through: cache write, queryExecuted, return rows
AfterQueryReturn(c) ==
  /\ StageReturned(c, "afterQuery")
  /\ LET r == q[c]
     IN /\ cache' = IF UseCache(r.opts)
                    THEN _setCache(cache, _getCacheKey(r.sql, r.params), r.rows,
                                   EffectiveTTL(r.opts.cacheTTL, cacheTTL), now)
                    ELSE cache
        /\ q' = [q EXCEPT ![c] =
                   [r EXCEPT !.pc = "done", !.status = "resolved", !.value = r.rows,
                             !.trace = @ \o Finish(r)]]
  /\ UNCHANGED <<now, pool, connection, cacheEnabled, cacheTTL, hooks, regLog,
                 checkedOut, txvars, bvars, xvars, yvars>>

OnErrorReturn_m(c) ==
  /\ StageReturned(c, "onError")
  /\ q' = [q EXCEPT ![c] =
             [@ EXCEPT !.pc = "done", !.status = "resolved", !.value = q[c].rows,
                       !.trace = @ \o <<Ev("queryError", "-", "-", q[c].error)>>]]
  /\ UNCHANGED <<now, pool, connection, cacheEnabled, cacheTTL, hooks, regLog,
                 cache, checkedOut, txvars, bvars, xvars, yvars>>

\* onError hooks are through: queryError, throw new Error('Query failed: ...')
OnErrorReturn(c) ==
  /\ StageReturned(c, "onError")
  /\ q' = [q EXCEPT ![c] =
             [@ EXCEPT !.pc = "done", !.status = "rejected",
                       !.rejection = [wrapped |-> TRUE, cause |-> q[c].error],
                       !.trace = @ \o <<Ev("queryError", "-", "-", q[c].error)>>]]
  /\ UNCHANGED <<now, pool, connection, cacheEnabled, cacheTTL, hooks, regLog,
                 cache, checkedOut, txvars, bvars, xvars, yvars>>

\* clearCache(): this.cache.clear(), then the cacheCleared signal, which every
\* query() under way at that moment has in its trace
clearCache ==
  /\ cacheEnabled
  /\ cache' = << >>
  /\ q' = [c \in QueryCalls |->
             IF q[c].pc \in {"idle", "done"} THEN q[c]
             ELSE [q[c] EXCEPT !.trace = Append(@, Ev("cacheCleared", "-", "-", NoErr))]]
  /\ UNCHANGED <<now, pool, connection, cacheEnabled, cacheTTL, hooks, regLog,
                 checkedOut, txvars, bvars, xvars, yvars>>

clearQueryLog_m ==
  /\ queryLog' = Tail(queryLog)
  /\ UNCHANGED <<qvars, txvars, bvars, xvars, ah, pg, poolsCreated>>

\* clearQueryLog(): this.queryLog = []
clearQueryLog ==
  /\ queryLog' = << >>
  /\ UNCHANGED <<qvars, txvars, bvars, xvars, ah, pg, poolsCreated>>

\* Date.now() advances
Tick ==
  /\ now < MaxTime
  /\ now' = now + 1
  /\ UNCHANGED <<pool, connection, cacheEnabled, cacheTTL, hooks, regLog, cache,
                 q, checkedOut, txvars, bvars, xvars, yvars>>

\* ---------------------------------------------------------------------------
\* Transactions.  The database keeps, per connection, the writes of its open
\* transaction; committed writes are what any later read sees.
\* ---------------------------------------------------------------------------
IdleTx == [pc |-> "idle", via |-> "-", conn |-> NoConn, nwrites |-> 0,
           began |-> FALSE, cb |-> "none", commit |-> "none", rollback |-> "none",
           commits |-> 0, rollbacks |-> 0, released |-> 0, error |-> "none",
           status |-> "pending", value |-> "none",
           rejection |-> [wrapped |-> FALSE, cause |-> "none"], trace |-> << >>]

TxEv(name, err) == [ev |-> name, err |-> err]

WritesOf(t) == {w \in Writes : w[1] = t /\ w[2] <= tx[t].nwrites}

\* transaction(callback) -> beginTransaction(): the connection is asked for,
\* from the pool if there is one, else through connect()
transaction(t) ==
  /\ tx[t].pc = "idle"
  /\ \A u \in TxCalls : u < t => tx[u].pc # "idle"
  /\ pool \/ connection
  /\ tx' = [tx EXCEPT ![t] = [@ EXCEPT !.pc = "acquire",
                                      !.via = IF pool THEN "pool" ELSE "connection"]]
  /\ UNCHANGED <<qvars, bvars, xvars, txOpen, pending, committed, yvars>>

\* pool.getConnection() / connect() settles; then conn.beginTransaction() is sent
TxAcquire(t, k, ok) ==
  /\ tx[t].pc = "acquire"
  /\ IF tx[t].via = "pool"
     THEN IF ok
          THEN /\ FirstFree(k)
               /\ checkedOut' = [checkedOut EXCEPT ![k] = TRUE]
               /\ tx' = [tx EXCEPT ![t] = [@ EXCEPT !.pc = "begin", !.conn = k]]
          ELSE /\ k = NoConn
               /\ checkedOut' = checkedOut
               /\ tx' = [tx EXCEPT ![t] =
                           [@ EXCEPT !.pc = "done", !.status = "rejected",
                                     !.rejection = [wrapped |-> FALSE, cause |-> "acquire"]]]
     ELSE /\ ok
          /\ k = Standalone
          /\ checkedOut' = checkedOut
          /\ tx' = [tx EXCEPT ![t] = [@ EXCEPT !.pc = "begin", !.conn = k]]
  /\ UNCHANGED <<now, pool, connection, cacheEnabled, cacheTTL, hooks, regLog,
                 cache, q, txOpen, pending, committed, bvars, xvars, yvars>>

\* conn.beginTransaction() settles.  START TRANSACTION commits whatever
\* transaction is open on that connection.  On success transactionStarted is
\* emitted and the callback is invoked; a failure leaves transaction() outside
\* its try block, so nothing is rolled back or released.
TxBegin(t, ok) ==
  /\ tx[t].pc = "begin"
  /\ LET k == tx[t].conn
     IN IF ok
        THEN /\ committed' = committed \cup pending[k]
             /\ pending' = [pending EXCEPT ![k] = {}]
             /\ txOpen' = [txOpen EXCEPT ![k] = TRUE]
             /\ tx' = [tx EXCEPT ![t] =
                         [@ EXCEPT !.pc = "callback", !.began = TRUE,
                                   !.trace = @ \o <<TxEv("transactionStarted", "none")>>]]
        ELSE /\ UNCHANGED <<committed, pending, txOpen>>
             /\ tx' = [tx EXCEPT ![t] =
                         [@ EXCEPT !.pc = "done", !.status = "rejected",
                                   !.rejection = [wrapped |-> FALSE, cause |-> "begin"]]]
  /\ UNCHANGED <<qvars, bvars, xvars, yvars>>

\* the callback issues one more write on the transaction connection
TxWrite(t) ==
  /\ tx[t].pc = "callback"
  /\ tx[t].nwrites < MaxWrites
  /\ LET k == tx[t].conn
         w == <<t, tx[t].nwrites + 1>>
     IN IF txOpen[k]
        THEN /\ pending' = [pending EXCEPT ![k] = @ \cup {w}]
             /\ committed' = committed
        ELSE /\ committed' = committed \cup {w}
             /\ pending' = pending
  /\ tx' = [tx EXCEPT ![t] = [@ EXCEPT !.nwrites = @ + 1]]
  /\ UNCHANGED <<qvars, bvars, xvars, txOpen, yvars>>

AfterCallback_m(r, ok) ==
  [r EXCEPT !.pc = "commit", !.cb = IF ok THEN "resolved" ELSE "rejected",
            !.commits = @ + 1]

\* what transaction() does when the callback's promise settles: commit on
\* success, the catch block's rollback on failure
AfterCallback(r, ok) ==
  IF ok
  THEN [r EXCEPT !.pc = "commit", !.cb = "resolved", !.commits = @ + 1]
  ELSE [r EXCEPT !.pc = "rollback", !.cb = "rejected", !.error = "callback",
                 !.rollbacks = @ + 1]

TxCallbackEnd(t, ok) ==
  /\ tx[t].pc = "callback"
  /\ tx' = [tx EXCEPT ![t] = AfterCallback(@, ok)]
  /\ UNCHANGED <<qvars, bvars, xvars, txOpen, pending, committed, yvars>>

Releases_m(r) == pool /\ r.status = "resolved"

\* the finally block: if (this.pool) conn.release()
Releases(r) == pool

Finally(r) == IF Releases(r) THEN [r EXCEPT !.released = @ + 1] ELSE r

Released(old, r) ==
  IF Releases(r) /\ r.conn \in PoolConns
  THEN [old EXCEPT ![r.conn] = FALSE]
  ELSE old

\* conn.commit() settles
TxCommit(t, ok) ==
  /\ tx[t].pc = "commit"
  /\ LET k == tx[t].conn
     IN IF ok
        THEN /\ committed' = committed \cup pending[k]
             /\ pending' = [pending EXCEPT ![k] = {}]
             /\ txOpen' = [txOpen EXCEPT ![k] = FALSE]
             /\ LET r == [tx[t] EXCEPT !.pc = "done", !.commit = "ok",
                                       !.status = "resolved", !.value = "result",
                                       !.trace = @ \o <<TxEv("transactionCommitted", "none")>>]
                IN /\ tx' = [tx EXCEPT ![t] = Finally(r)]
                   /\ checkedOut' = Released(checkedOut, r)
        ELSE /\ UNCHANGED <<committed, pending, txOpen, checkedOut>>
             /\ tx' = [tx EXCEPT ![t] =
                         [@ EXCEPT !.pc = "rollback", !.commit = "failed",
                                   !.error = "commit", !.rollbacks = @ + 1]]
  /\ UNCHANGED <<now, pool, connection, cacheEnabled, cacheTTL, hooks, regLog,
                 cache, q, bvars, xvars, yvars>>

\* conn.rollback() settles.  Either way the connection's open transaction is
\* gone: a rollback the driver reports as failed is a lost connection, whose
\* transaction the server discards.
TxRollback(t, ok) ==
  /\ tx[t].pc = "rollback"
  /\ LET k == tx[t].conn
         r == IF ok
              THEN [tx[t] EXCEPT !.pc = "done", !.rollback = "ok",
                                 !.status = "rejected",
                                 !.rejection = [wrapped |-> TRUE, cause |-> tx[t].error],
                                 !.trace = @ \o <<TxEv("transactionRolledBack", tx[t].error)>>]
              ELSE [tx[t] EXCEPT !.pc = "done", !.rollback = "failed",
                                 !.status = "rejected",
                                 !.rejection = [wrapped |-> FALSE, cause |-> "rollback"]]
     IN /\ pending' = [pending EXCEPT ![k] = {}]
        /\ txOpen' = [txOpen EXCEPT ![k] = FALSE]
        /\ tx' = [tx EXCEPT ![t] = Finally(r)]
        /\ checkedOut' = Released(checkedOut, r)
  /\ UNCHANGED <<now, pool, connection, cacheEnabled, cacheTTL, hooks, regLog,
                 cache, q, committed, bvars, xvars, yvars>>

\* ---------------------------------------------------------------------------
\* QueryBuilder.  SQL text is a sequence of tokens; the database behind
\* db.query answers a statement with a number of rows (whose first row carries
\* a count column) or fails.
\* ---------------------------------------------------------------------------
NoNum == -1

reset == [_table |-> "", _columns |-> <<"*">>, _where |-> << >>,
          _whereParams |-> << >>, _joins |-> << >>, _orderBy |-> << >>,
          _groupBy |-> << >>, _having |-> "", _limit |-> NoNum, _offset |-> NoNum]

table(b, t) == [b EXCEPT !._table = t]

select(b, columns) == [b EXCEPT !._columns = IF Len(columns) > 0 THEN columns ELSE <<"*">>]

where(b, column, operator, value) ==
  [b EXCEPT !._where = Append(@, <<column, operator, "?">>),
            !._whereParams = Append(@, value)]

RECURSIVE Placeholders_m(_)
Placeholders_m(n) ==
  IF n <= 1 THEN << >>
  ELSE IF n = 2 THEN <<"?">>
  ELSE <<"?", ",">> \o Placeholders_m(n - 1)

RECURSIVE Placeholders(_)
Placeholders(n) ==
  IF n = 0 THEN << >>
  ELSE IF n = 1 THEN <<"?">>
  ELSE <<"?", ",">> \o Placeholders(n - 1)

whereIn(b, column, values) ==
  [b EXCEPT !._where = Append(@, <<column, "IN", "(">> \o Placeholders(Len(values)) \o <<")">>),
            !._whereParams = @ \o values]

whereNotIn(b, column, values) ==
  [b EXCEPT !._where = Append(@, <<column, "NOT IN", "(">> \o Placeholders(Len(values)) \o <<")">>),
            !._whereParams = @ \o values]

whereBetween(b, column, min, max) ==
  [b EXCEPT !._where = Append(@, <<column, "BETWEEN", "?", "AND", "?">>),
            !._whereParams = @ \o <<min, max>>]

whereNotBetween(b, column, min, max) ==
  [b EXCEPT !._where = Append(@, <<column, "NOT BETWEEN", "?", "AND", "?">>),
            !._whereParams = @ \o <<min, max>>]

whereNull(b, column) == [b EXCEPT !._where = Append(@, <<column, "IS NULL">>)]

whereNotNull(b, column) == [b EXCEPT !._where = Append(@, <<column, "IS NOT NULL">>)]

whereLike(b, column, pattern) ==
  [b EXCEPT !._where = Append(@, <<column, "LIKE", "?">>),
            !._whereParams = Append(@, pattern)]

whereNotLike(b, column, pattern) ==
  [b EXCEPT !._where = Append(@, <<column, "NOT LIKE", "?">>),
            !._whereParams = Append(@, pattern)]

\* the condition is raw text, here already split into tokens
whereRaw(b, condition, params) ==
  [b EXCEPT !._where = Append(@, condition), !._whereParams = @ \o params]

orWhere_m(b, column, operator, value) ==
  [b EXCEPT !._where = Append(@, <<"OR", column, operator, "?">>),
            !._whereParams = Append(@, value)]

\* the fragment is `${prefix} ${column} ${operator} ?`: with an empty prefix it
\* begins with a blank, here an empty token
orWhere(b, column, operator, value) ==
  LET prefix == IF Len(b._where) > 0 THEN "OR" ELSE ""
  IN [b EXCEPT !._where = Append(@, <<prefix, column, operator, "?">>),
               !._whereParams = Append(@, value)]

join(b, t, column1, operator, column2) ==
  [b EXCEPT !._joins = Append(@, <<"INNER JOIN", t, "ON", column1, operator, column2>>)]

leftJoin(b, t, column1, operator, column2) ==
  [b EXCEPT !._joins = Append(@, <<"LEFT JOIN", t, "ON", column1, operator, column2>>)]

rightJoin(b, t, column1, operator, column2) ==
  [b EXCEPT !._joins = Append(@, <<"RIGHT JOIN", t, "ON", column1, operator, column2>>)]

crossJoin(b, t) == [b EXCEPT !._joins = Append(@, <<"CROSS JOIN", t>>)]

orderBy(b, column, direction) ==
  [b EXCEPT !._orderBy = Append(@, <<column, direction>>)]

orderByRaw(b, rawOrder) == [b EXCEPT !._orderBy = Append(@, <<rawOrder>>)]

groupBy(b, columns) == [b EXCEPT !._groupBy = @ \o columns]

having(b, condition) == [b EXCEPT !._having = condition]

limit(b, n) == [b EXCEPT !._limit = n]

offset(b, n) == [b EXCEPT !._offset = n]

\* Array.prototype.join over fragments that are token sequences
RECURSIVE JoinTokens(_, _)
JoinTokens(parts, sep) ==
  IF parts = << >> THEN << >>
  ELSE IF Len(parts) = 1 THEN parts[1]
  ELSE parts[1] \o sep \o JoinTokens(Tail(parts), sep)

Singletons(strs) == [i \in 1..Len(strs) |-> <<strs[i]>>]

\* the part of the statement that names the table, the joins and the predicates
FromWhere(b) ==
  <<"FROM", b._table>>
  \o (IF Len(b._joins) > 0 THEN JoinTokens(b._joins, << >>) ELSE << >>)
  \o (IF Len(b._where) > 0 THEN <<"WHERE">> \o JoinTokens(b._where, <<"AND">>) ELSE << >>)

toSQL(b) ==
  [sql |-> <<"SELECT">> \o JoinTokens(Singletons(b._columns), <<",">>)
           \o FromWhere(b)
           \o (IF Len(b._groupBy) > 0
               THEN <<"GROUP BY">> \o JoinTokens(Singletons(b._groupBy), <<",">>)
               ELSE << >>)
           \o (IF b._having # "" THEN <<"HAVING", b._having>> ELSE << >>)
           \o (IF Len(b._orderBy) > 0
               THEN <<"ORDER BY">> \o JoinTokens(b._orderBy, <<",">>)
               ELSE << >>)
           \o (IF b._limit # NoNum THEN <<"LIMIT", ToString(b._limit)>> ELSE << >>)
           \o (IF b._offset # NoNum THEN <<"OFFSET", ToString(b._offset)>> ELSE << >>),
   params |-> b._whereParams]

\* the pagination object paginate() returns
Pagination(page, perPage, totalCount, totalPages) ==
  [currentPage |-> page, perPage |-> perPage, totalItems |-> totalCount,
   totalPages |-> totalPages, hasNextPage |-> page < totalPages,
   hasPrevPage |-> page > 1]

NoPagination == Pagination(0, 0, 0, 0)

IdleOp == [kind |-> "none", phase |-> 0, page |-> 0, perPage |-> 0, offset |-> 0,
           originalColumns |-> << >>, atCall |-> reset, status |-> "pending",
           rows |-> 0, value |-> 0, totalPages |-> 0, ops |-> 0,
           prev |-> [kind |-> "none", status |-> "pending", built |-> FALSE],
           counted |-> 0, pagination |-> NoPagination]

CountColumns == <<"COUNT(*) as count">>

\* a fluent call between two terminal operations
Fluent(nb) ==
  /\ op.phase = 0
  /\ op.ops = 0
  /\ qb' = nb
  /\ UNCHANGED <<op, issued, calls, cloned, qvars, txvars, xvars, yvars>>

\* the builder as first() leaves it before it calls get()
FirstPrefix(b) == limit(b, 1)

\* the builder as count() leaves it before it calls first()
CountPrefix(b) == [b EXCEPT !._columns = CountColumns]

\* the operations that run through count(): exists() and paginate() call it
CountKinds == {"count", "exists", "paginate"}

\* a terminal operation up to its first await: the statement get() compiles
\* goes to db.query
Terminal(kind, page, perPage) ==
  /\ op.phase = 0
  /\ op.ops < MaxOps
  /\ LET b1 == IF kind \in CountKinds THEN CountPrefix(qb) ELSE qb
         b2 == IF kind \in {"first"} \cup CountKinds THEN FirstPrefix(b1) ELSE b1
     IN /\ qb' = b2
        /\ issued' = <<toSQL(b2)>>
        /\ op' = [IdleOp EXCEPT !.kind = kind, !.phase = 1, !.page = page,
                                !.perPage = perPage, !.offset = (page - 1) * perPage,
                                !.originalColumns = qb._columns, !.atCall = qb,
                                !.ops = op.ops + 1,
                                !.prev = [kind |-> op.kind, status |-> op.status,
                                          built |-> (op.atCall # reset)]]
  /\ UNCHANGED <<calls, cloned, qvars, txvars, xvars, yvars>>

Ceil(a, d) == (a + d - 1) \div d

AfterGet_m(b) == b

\* the builder when get() resumes after db.query resolved
AfterGet(b) == reset

\* db.query settles for the first statement of the operation.  get() resets
\* the builder, first() picks the first row, count() puts the column list
\* back and reads the count; paginate() then sets limit and offset and calls
\* get() again.  A rejection passes through every frame untouched.
\* the numbers of rows a server can answer the statement of builder b with:
\* COUNT(*) without GROUP BY is one row, which an OFFSET of 1 or more skips;
\* LIMIT k is at most k rows
ServerRows(b, n) ==
  IF b._columns = CountColumns
  THEN n = (IF b._offset # NoNum /\ b._offset >= 1 THEN 0 ELSE 1)
  ELSE b._limit = NoNum \/ n <= b._limit

DbQueryReturn(ok, n, cnt) ==
  /\ op.phase = 1
  /\ ok => ServerRows(qb, n)
  /\ IF ~ok
     THEN /\ op' = [op EXCEPT !.phase = 0, !.status = "rejected"]
          /\ UNCHANGED <<qb, issued>>
     ELSE LET b1 == AfterGet(qb)
              b2 == IF op.kind \in CountKinds
                    THEN [b1 EXCEPT !._columns = op.originalColumns]
                    ELSE b1
              total == IF n > 0 THEN cnt ELSE 0
          IN IF op.kind = "paginate"
             THEN LET b3 == offset(limit(b2, op.perPage), op.offset)
                  IN /\ qb' = b3
                     /\ issued' = Append(issued, toSQL(b3))
                     /\ op' = [op EXCEPT !.phase = 2, !.value = total, !.counted = cnt,
                                         !.totalPages = Ceil(total, op.perPage)]
             ELSE /\ qb' = b2
                  /\ issued' = issued
                  /\ op' = [op EXCEPT !.phase = 0, !.status = "resolved",
                                      !.rows = IF op.kind = "get" THEN n
                                               ELSE IF n > 0 THEN 1 ELSE 0,
                                      !.value = IF op.kind = "count" THEN total
                                                ELSE IF op.kind = "exists" /\ total > 0 THEN 1
                                                ELSE 0,
                                      !.counted = IF op.kind \in CountKinds THEN cnt ELSE 0]
  /\ UNCHANGED <<calls, cloned, qvars, txvars, xvars, yvars>>

\* db.query settles for the page statement of paginate()
PageQueryReturn(ok, n) ==
  /\ op.phase = 2
  /\ ok => ServerRows(qb, n)
  /\ IF ok
     THEN /\ qb' = AfterGet(qb)
          /\ op' = [op EXCEPT !.phase = 0, !.status = "resolved", !.rows = n,
                              !.pagination = Pagination(op.page, op.perPage, op.value,
                                                        op.totalPages)]
     ELSE /\ qb' = qb
          /\ op' = [op EXCEPT !.phase = 0, !.status = "rejected"]
  /\ UNCHANGED <<issued, calls, cloned, qvars, txvars, xvars, yvars>>

\* the array-valued fields of a builder
ArrayFields == {"_columns", "_where", "_whereParams", "_joins", "_orderBy", "_groupBy"}

\* clone(): a new builder that gets the scalars and a spread copy of each array
clone(b) ==
  [_table |-> b._table, _columns |-> b._columns, _where |-> b._where,
   _whereParams |-> b._whereParams, _joins |-> b._joins, _orderBy |-> b._orderBy,
   _groupBy |-> b._groupBy, _having |-> b._having, _limit |-> b._limit,
   _offset |-> b._offset]

CloneShares_m == ArrayFields

\* the array objects the clone has in common with the original: [...x] makes
\* a new array of each, so none
CloneShares == {}

NoClone == [exists |-> FALSE, b |-> reset, shared |-> {}, last |-> "none"]

CloneCall ==
  /\ op.phase = 0
  /\ ~cloned.exists
  /\ cloned' = [exists |-> TRUE, b |-> clone(qb), shared |-> CloneShares,
                 last |-> "none"]
  /\ UNCHANGED <<qb, op, issued, calls, qvars, txvars, xvars, yvars>>

Target(side) == IF side = "original" THEN qb ELSE cloned.b

\* a fluent call on the original or on the clone.  nb is the called builder
\* after the call and assigned the array fields the call replaced by a new
\* array; the other fields' arrays were pushed onto in place, which shows in
\* every builder that holds the same array object.
BuilderCall(side, nb, assigned) ==
  /\ op.phase = 0
  /\ LET keep == cloned.shared \ assigned
         Other(o) == IF keep = {} THEN o
                     ELSE [f \in DOMAIN o |-> IF f \in keep THEN nb[f] ELSE o[f]]
     IN IF side = "original"
        THEN /\ qb' = nb
             /\ cloned' = [cloned EXCEPT !.b = Other(@), !.shared = keep,
                                         !.last = IF cloned.exists THEN side ELSE @]
        ELSE /\ cloned.exists
             /\ qb' = Other(qb)
             /\ cloned' = [cloned EXCEPT !.b = nb, !.shared = keep, !.last = side]
  /\ UNCHANGED <<op, issued, calls, qvars, txvars, xvars, yvars>>

\* the values a caller binds in its next call, told apart by the call's number
NextVals(n) == [i \in 1..n |-> ToString(Len(calls) + 1) \o "." \o ToString(i)]

\* one call of a chain of builder calls; the chain is recorded: whether the
\* call added a predicate and which values it bound
Build(name, nb, pred, vals) ==
  /\ Len(calls) < MaxCalls
  /\ qb' = nb
  /\ calls' = Append(calls, [name |-> name, pred |-> pred, vals |-> vals])
  /\ UNCHANGED <<op, issued, cloned, qvars, txvars, xvars, yvars>>

\* ---------------------------------------------------------------------------
\* Number arithmetic.  A JavaScript number is an IEEE 754 double: 53
\* significant bits, every result rounded to nearest, ties to even.  A
\* significand is held as five limbs of 13 bits under a leading 1, most
\* significant first; [m, e] stands for m * 2^-e.
\* ---------------------------------------------------------------------------
LimbBits == 13

RECURSIVE Pow2(_)
Pow2(k) == IF k = 0 THEN 1 ELSE 2 * Pow2(k - 1)

Base == Pow2(LimbBits)

Front(a) == SubSeq(a, 1, Len(a) - 1)

\* the number of binary places a must be moved up to reach b
RECURSIVE LeadingShift(_, _)
LeadingShift(a, b) == IF a >= b THEN 0 ELSE 1 + LeadingShift(2 * a, b)

\* k more limbs of the quotient r / b, and the remainder
RECURSIVE DivLimbs(_, _, _)
DivLimbs(r, b, k) ==
  IF k = 0 THEN [digits |-> << >>, r |-> r]
  ELSE LET t == r * Base
           rest == DivLimbs(t % b, b, k - 1)
       IN [digits |-> <<t \div b>> \o rest.digits, r |-> rest.r]

RECURSIVE AddUnit(_)
AddUnit(m) ==
  IF Len(m) = 1 THEN <<m[1] + 1>>
  ELSE IF m[Len(m)] + 1 < Base THEN Front(m) \o <<m[Len(m)] + 1>>
  ELSE AddUnit(Front(m)) \o <<0>>

\* the next double above x
Successor(x) ==
  LET t == AddUnit(x.m)
  IN IF t[1] = 2 THEN [m |-> <<1, 0, 0, 0, 0>>, e |-> x.e - 1] ELSE [m |-> t, e |-> x.e]

\* round to nearest, ties to even: up goes a result that is more than half a
\* unit short, or exactly half a unit short of an odd significand
Nearest(x, twiceLeft, unit) ==
  IF twiceLeft > unit \/ (twiceLeft = unit /\ x.m[5] % 2 = 1) THEN Successor(x) ELSE x

\* a / b for integers 0 < a <= b
Divide(a, b) ==
  LET s == LeadingShift(a, b)
      top == a * Pow2(s)
      low == DivLimbs(top % b, b, 4)
  IN Nearest([m |-> <<top \div b>> \o low.digits, e |-> s + 4 * LimbBits], 2 * low.r, b)

RECURSIVE MulCarry(_, _, _)
MulCarry(m, f, c) ==
  IF Len(m) = 1 THEN <<m[1] * f + c>>
  ELSE LET t == m[Len(m)] * f + c
       IN MulCarry(Front(m), f, t \div Base) \o <<t % Base>>

\* x * 100: the exact product has 6 or 7 bits too many, which are cut off
TimesHundred(x) ==
  LET prod == MulCarry(x.m, 100, 0)
      d == IF prod[1] >= 128 THEN 7 ELSE 6
      cut == prod[5] % Pow2(d)
      kept == [i \in 1..5 |->
                 (prod[i] \div Pow2(d))
                 + (IF i > 1 THEN (prod[i - 1] % Pow2(d)) * Pow2(LimbBits - d) ELSE 0)]
  IN Nearest([m |-> kept, e |-> x.e - d], 2 * cut, Pow2(d))

\* Math.round of a number below 2^14: the nearest integer, a tie going up
MathRound(x) ==
  LET f == x.e - 3 * LimbBits
      hi == x.m[1] * Base + x.m[2]
  IN IF f > LimbBits + 1 THEN 0
     ELSE IF f = LimbBits + 1 THEN 1
     ELSE hi \div Pow2(f)
          + (IF f >= 1 THEN (hi \div Pow2(f - 1)) % 2 ELSE x.m[3] \div Pow2(LimbBits - 1))

\* Math.round((processed / total) * 100)
Percentage(processed, total) == MathRound(TimesHundred(Divide(processed, total)))

\* ---------------------------------------------------------------------------
\* batchInsert(table, dataArray, batchSize): one insertMany per chunk, each a
\* query() of its own (call 1 of the executor)
\* ---------------------------------------------------------------------------
ItemValues == {"x", "y"}

DefaultOptions == [cache |-> TRUE, cacheTTL |-> "undefined"]

Min(a, b) == IF a < b THEN a ELSE b

IdleBatch == [pc |-> "idle", kind |-> "-", given |-> TRUE,
              items |-> << >>, batchSize |-> 1, batches |-> 0,
              i |-> 0, chunks |-> << >>, progress |-> << >>, log |-> << >>,
              status |-> "pending",
              value |-> [totalBatches |-> 0, totalInserted |-> 0]]

\* a dataArray argument: an array, or no argument at all
Undefined == [given |-> FALSE, items |-> << >>]

Array(items) == [given |-> TRUE, items |-> items]

EmptyInput_m(dataArray) == ~dataArray.given

\* if (!dataArray || dataArray.length === 0)
EmptyInput(dataArray) == ~dataArray.given \/ Len(dataArray.items) = 0

\* Array.prototype.join of n copies of str
RECURSIVE Repeat(_, _, _)
Repeat(str, sep, n) ==
  IF n = 0 THEN "" ELSE IF n = 1 THEN str ELSE str \o sep \o Repeat(str, sep, n - 1)

\* Object.values of an item after _addTimestamps: created_at and updated_at
\* are the Date of the call when timestamps are on
RowValues(item) ==
  IF config.timestamps THEN <<item, ToString(now), ToString(now)>> ELSE <<item>>

RECURSIVE FlatValues(_)
FlatValues(dataArray) ==
  IF dataArray = << >> THEN << >>
  ELSE RowValues(Head(dataArray)) \o FlatValues(Tail(dataArray))

\* the statement insertMany(table, dataArray) passes to query()
insertMany(dataArray) ==
  LET ncols == Len(RowValues(dataArray[1]))
      columns == IF config.timestamps THEN "v, created_at, updated_at" ELSE "v"
      row == "(" \o Repeat("?", ", ", ncols) \o ")"
  IN [sql |-> "INSERT INTO t (" \o columns \o ") VALUES "
                \o Repeat(row, ", ", Len(dataArray)),
      values |-> FlatValues(dataArray)]

BatchEv(name, k) == [ev |-> name, k |-> k]

BatchProgress_m(i, batches, end) ==
  [current |-> i, total |-> batches, processedRows |-> end]

\* the batchProgress signal after chunk i (counted from 0)
BatchProgress(i, batches, end) ==
  [current |-> i + 1, total |-> batches, processedRows |-> end]

\* one turn of the loop up to its await: slice the chunk, call insertMany
InsertChunk(r, i) ==
  LET start == i * r.batchSize
      end == Min(start + r.batchSize, Len(r.items))
      batch == SubSeq(r.items, start + 1, end)
      stmt == insertMany(batch)
  IN /\ bi' = [r EXCEPT !.pc = "insertMany", !.i = i,
                        !.chunks = Append(@, [start |-> start, end |-> end,
                                              rows |-> batch, execs |-> 0]),
                        !.log = Append(@, BatchEv("insertStart", i + 1))]
     /\ QueryStart(1, stmt.sql, stmt.values, DefaultOptions)

batchInsert(dataArray, batchSize) ==
  /\ bi.pc = "idle"
  /\ LET items == dataArray.items
         r == [bi EXCEPT !.kind = "batchInsert", !.given = dataArray.given,
                         !.items = items, !.batchSize = batchSize,
                         !.batches = (Len(items) + batchSize - 1) \div batchSize]
     IN IF EmptyInput(dataArray)
        THEN /\ bi' = [r EXCEPT !.pc = "done", !.status = "rejected"]
             /\ UNCHANGED <<q, cache>>
        ELSE IF r.batches = 0
        THEN /\ bi' = [r EXCEPT !.pc = "done", !.status = "resolved"]
             /\ UNCHANGED <<q, cache>>
        ELSE InsertChunk(r, 0)
  /\ UNCHANGED <<now, pool, connection, cacheEnabled, cacheTTL, hooks, regLog,
                 checkedOut, txvars, bvars, config, bp, cn, yvars>>

\* insertMany(table, dataArray) called by itself: the guard, then the one
\* statement goes to query().  Without the guard an empty array would fail at
\* Object.keys(timestampedArray[0]).
insertManyCall(dataArray) ==
  /\ bi.pc = "idle"
  /\ LET items == dataArray.items
         r == [bi EXCEPT !.kind = "insertMany", !.given = dataArray.given,
                         !.items = items, !.batchSize = Len(items), !.batches = 1]
     IN IF EmptyInput(dataArray) \/ Len(items) = 0
        THEN /\ bi' = [r EXCEPT !.pc = "done", !.status = "rejected"]
             /\ UNCHANGED <<q, cache>>
        ELSE InsertChunk(r, 0)
  /\ UNCHANGED <<now, pool, connection, cacheEnabled, cacheTTL, hooks, regLog,
                 checkedOut, txvars, bvars, config, bp, cn, yvars>>

\* the query() of insertMany has settled: push the result, emit batchProgress
\* and go on with the next chunk, or return; a rejection leaves the loop
InsertManyReturn ==
  /\ bi.pc = "insertMany"
  /\ q[1].pc = "done"
  /\ LET k == Len(bi.chunks)
         r == [bi EXCEPT !.chunks[k].execs = q[1].execs]
     IN IF q[1].status = "resolved"
        THEN LET r1 == IF r.kind = "insertMany"
                       THEN [r EXCEPT !.log = Append(@, BatchEv("insertEnd", k))]
                       ELSE [r EXCEPT !.progress =
                                        Append(@, BatchProgress(r.i, r.batches, r.chunks[k].end)),
                                      !.log = @ \o <<BatchEv("insertEnd", k),
                                                     BatchEv("batchProgress", k)>>]
             IN IF r.i + 1 < r.batches
                THEN InsertChunk(r1, r.i + 1)
                ELSE /\ bi' = [r1 EXCEPT !.pc = "done", !.status = "resolved",
                                         !.value = [totalBatches |-> r.batches,
                                                    totalInserted |-> Len(r.items)]]
                     /\ UNCHANGED <<q, cache>>
        ELSE /\ bi' = [r EXCEPT !.pc = "done", !.status = "rejected",
                                !.log = Append(@, BatchEv("insertFailed", k))]
             /\ UNCHANGED <<q, cache>>
  /\ UNCHANGED <<now, pool, connection, cacheEnabled, cacheTTL, hooks, regLog,
                 checkedOut, txvars, bvars, config, bp, cn, yvars>>

\* ---------------------------------------------------------------------------
\* batchProcess(items, processor, { batchSize, concurrency, onProgress }).
\* Chunks are numbered from 0; the processor is the caller's, each of its
\* promises settles on its own.
\* ---------------------------------------------------------------------------
IdleProcess == [pc |-> "idle", n |-> 0, batchSize |-> 1, concurrency |-> 1,
                onProgress |-> FALSE, nchunks |-> 0, i |-> 0, started |-> 0,
                inflight |-> {}, failed |-> {}, rejection |-> -1,
                progress |-> << >>, status |-> "pending"]

WindowEnd_m(r, i) == Min(i + r.concurrency + 1, r.nchunks)

\* batches.slice(i, i + concurrency) ends before this chunk
WindowEnd(r, i) == Min(i + r.concurrency, r.nchunks)

\* currentBatches.map(batch => processor(batch)): every chunk of the window
\* is handed to the processor, then Promise.all is awaited
StartWindow(r, i) ==
  [r EXCEPT !.pc = "window", !.i = i, !.started = WindowEnd(r, i),
            !.inflight = @ \cup (i..(WindowEnd(r, i) - 1))]

batchProcess(n, batchSize, concurrency, onProgress) ==
  /\ bp.pc = "idle"
  /\ LET r == [bp EXCEPT !.n = n, !.batchSize = batchSize,
                         !.concurrency = concurrency, !.onProgress = onProgress,
                         !.nchunks = (n + batchSize - 1) \div batchSize]
     IN bp' = IF r.nchunks = 0
              THEN [r EXCEPT !.pc = "done", !.status = "resolved"]
              ELSE StartWindow(r, 0)
  /\ UNCHANGED <<qvars, txvars, bvars, config, bi, cn, yvars>>

FirstRejection_m(r, k) == r.i

\* Promise.all rejects with the first rejection it sees
FirstRejection(r, k) == k

\* the processor's promise for chunk k settles; the first rejection rejects
\* Promise.all and with it batchProcess, whatever is still in flight
ProcessorEnd(k, ok) ==
  /\ k \in bp.inflight
  /\ LET r == [bp EXCEPT !.inflight = @ \ {k},
                         !.failed = IF ok THEN @ ELSE @ \cup {k}]
     IN bp' = IF ~ok /\ bp.pc = "window"
              THEN [r EXCEPT !.pc = "done", !.status = "rejected",
                             !.rejection = FirstRejection(bp, k)]
              ELSE r
  /\ UNCHANGED <<qvars, txvars, bvars, config, bi, cn, yvars>>

\* the report passed to onProgress after the window that began at chunk i
ProgressReport(r, i) ==
  LET processed == Min((i + r.concurrency) * r.batchSize, r.n)
  IN [processed |-> processed, total |-> r.n,
      percentage |-> Percentage(processed, r.n)]

\* Promise.all is fulfilled: onProgress, then the next window or return
WindowReturn ==
  /\ bp.pc = "window"
  /\ bp.inflight = {}
  /\ LET r == IF bp.onProgress
              THEN [bp EXCEPT !.progress = Append(@, ProgressReport(bp, bp.i))]
              ELSE bp
         next == bp.i + bp.concurrency
     IN bp' = IF next < bp.nchunks
              THEN StartWindow(r, next)
              ELSE [r EXCEPT !.pc = "done", !.status = "resolved"]
  /\ UNCHANGED <<qvars, txvars, bvars, config, bi, cn, yvars>>

\* ---------------------------------------------------------------------------
\* connect() and _connectWithRetry(attempt)
\* ---------------------------------------------------------------------------
ConnectCalls == {1, 2}

DefaultConfig == [timestamps |-> TRUE, retryAttempts |-> 3, retryDelay |-> 1,
                  logQueries |-> FALSE]

IdleConnect == [pc |-> "idle", attempt |-> 0, attempts |-> 0, status |-> "pending",
                value |-> [by |-> 0, attempt |-> 0], stored |-> FALSE,
                message |-> 0, trace |-> << >>]

ConnEv(name, attempt, delay) == [ev |-> name, attempt |-> attempt, delay |-> delay]

MayRetry_m(attempt) == attempt <= config.retryAttempts

\* if (attempt < this.retryAttempts)
MayRetry(attempt) == attempt < config.retryAttempts

\* mysql.createConnection is called for attempt number `attempt`
Attempt(r, attempt) ==
  [r EXCEPT !.pc = "connecting", !.attempt = attempt, !.attempts = @ + 1,
            !.trace = Append(@, ConnEv("attempt", attempt, 0))]

\* this.connection: the connection of the connect() call that assigned it
\* last, or one the helper had before any of these calls
Stored ==
  IF \E d \in ConnectCalls : cn[d].stored
  THEN cn[CHOOSE d \in ConnectCalls : cn[d].stored].value
  ELSE [by |-> 0, attempt |-> 0]

\* connect() up to its await: with a connection stored it returns that one,
\* else it starts _connectWithRetry()
connect(c) ==
  /\ cn[c].pc = "idle"
  /\ \A d \in ConnectCalls : d < c => cn[d].pc # "idle"
  /\ cn' = [cn EXCEPT ![c] =
              IF connection
              THEN [@ EXCEPT !.pc = "done", !.status = "resolved", !.value = Stored]
              ELSE Attempt(@, 1)]
  /\ UNCHANGED <<qvars, txvars, bvars, config, bi, bp, yvars>>

\* createConnection settles: the connection is stored and returned, or the
\* attempt is retried after a sleep, or _connectWithRetry gives up
CreateConnectionEnd(c, ok) ==
  /\ cn[c].pc = "connecting"
  /\ LET r == cn[c]
     IN IF ok
        THEN /\ connection' = TRUE
             /\ cn' = [d \in ConnectCalls |->
                         IF d = c
                         THEN [r EXCEPT !.pc = "done", !.status = "resolved",
                                        !.value = [by |-> c, attempt |-> r.attempt],
                                        !.stored = TRUE,
                                        !.trace = Append(@, ConnEv("connected", r.attempt, 0))]
                         ELSE [cn[d] EXCEPT !.stored = FALSE]]
        ELSE /\ connection' = connection
             /\ cn' = [cn EXCEPT ![c] =
                         IF MayRetry(r.attempt)
                         THEN [r EXCEPT !.pc = "sleeping",
                                        !.trace = Append(@, ConnEv("connectionRetry", r.attempt,
                                                                   config.retryDelay * r.attempt))]
                         ELSE [r EXCEPT !.pc = "done", !.status = "rejected",
                                        !.message = config.retryAttempts]]
  /\ UNCHANGED <<now, pool, cacheEnabled, cacheTTL, hooks, regLog, cache, q,
                 checkedOut, txvars, bvars, config, bi, bp, yvars>>

\* the timer of _sleep fires: the next attempt
SleepEnd(c) ==
  /\ cn[c].pc = "sleeping"
  /\ cn' = [cn EXCEPT ![c] = Attempt(@, @.attempt + 1)]
  /\ UNCHANGED <<qvars, txvars, bvars, config, bi, bp, yvars>>

\* ---------------------------------------------------------------------------
\* MySQLHelper.paginate(table, { page, perPage, where }): count(), then
\* select(), each a query() of its own (call 1 of the executor).  `where` is
\* the sequence of the values of its keys a1, a2, ...
\* ---------------------------------------------------------------------------
IdlePaginate == [pc |-> "idle", page |-> 0, perPage |-> 0, where |-> << >>,
                 offset |-> 0, totalCount |-> 0, totalPages |-> 0,
                 issued |-> << >>, status |-> "pending",
                 pagination |-> NoPagination]

\* Object.keys(where).map(key => `${key} = ?`).join(' AND ')
RECURSIVE Conditions(_, _)
Conditions(i, n) ==
  IF i > n THEN << >>
  ELSE <<"a" \o ToString(i), "=", "?">>
       \o (IF i < n THEN <<"AND">> ELSE << >>) \o Conditions(i + 1, n)

WhereClause(whereArg) ==
  IF Len(whereArg) > 0 THEN <<"WHERE">> \o Conditions(1, Len(whereArg)) ELSE << >>

\* the statement of count(table, whereArg)
countStatement(whereArg) ==
  [sql |-> <<"SELECT", "COUNT(*) as count", "FROM", "t">> \o WhereClause(whereArg),
   params |-> whereArg]

\* the statement of select(table, { columns, whereArg, orderBy, limit, offset }):
\* a limit or an offset of 0 is falsy and adds no clause
selectStatement(columns, whereArg, orderByArg, limitArg, offsetArg) ==
  [sql |-> <<"SELECT", columns, "FROM", "t">> \o WhereClause(whereArg)
           \o (IF orderByArg # "" THEN <<"ORDER BY", orderByArg>> ELSE << >>)
           \o (IF limitArg # 0 THEN <<"LIMIT", ToString(limitArg)>> ELSE << >>)
           \o (IF offsetArg # 0 THEN <<"OFFSET", ToString(offsetArg)>> ELSE << >>),
   params |-> whereArg]

\* the statement of delete(table, where)
deleteStatement(whereArg) ==
  [sql |-> <<"DELETE", "FROM", "t", "WHERE">> \o Conditions(1, Len(whereArg)),
   params |-> whereArg]

\* delete(table, where) up to its first await: the statement goes to query()
\* with no options
delete(c, whereArg) ==
  QueryCall(c, deleteStatement(whereArg).sql, deleteStatement(whereArg).params,
            DefaultOptions)

\* paginate up to its first await: the count statement goes to query()
paginate(page, perPage, whereArg) ==
  /\ pg.pc = "idle"
  /\ LET stmt == countStatement(whereArg)
     IN /\ pg' = [pg EXCEPT !.pc = "count", !.page = page, !.perPage = perPage,
                            !.where = whereArg, !.offset = (page - 1) * perPage,
                            !.issued = <<stmt>>]
        /\ QueryStart(1, stmt.sql, stmt.params, DefaultOptions)
  /\ UNCHANGED <<now, pool, connection, cacheEnabled, cacheTTL, hooks, regLog,
                 checkedOut, txvars, bvars, xvars, ah, queryLog, poolsCreated>>

\* the query() of count has settled; result[0].count is cnt.  Then the page
\* is selected with the defaults columns = '*' and orderBy = 'id DESC'
CountReturn(cnt) ==
  /\ pg.pc = "count"
  /\ q[1].pc = "done"
  /\ IF q[1].status = "resolved"
     THEN LET stmt == selectStatement("*", pg.where, "id DESC", pg.perPage, pg.offset)
          IN /\ pg' = [pg EXCEPT !.pc = "select", !.totalCount = cnt,
                                 !.totalPages = Ceil(cnt, pg.perPage),
                                 !.issued = Append(@, stmt)]
             /\ QueryStart(1, stmt.sql, stmt.params, DefaultOptions)
     ELSE /\ pg' = [pg EXCEPT !.pc = "done", !.status = "rejected"]
          /\ UNCHANGED <<q, cache>>
  /\ UNCHANGED <<now, pool, connection, cacheEnabled, cacheTTL, hooks, regLog,
                 checkedOut, txvars, bvars, xvars, ah, queryLog, poolsCreated>>

\* the query() of select has settled: paginate returns data and pagination
SelectReturn ==
  /\ pg.pc = "select"
  /\ q[1].pc = "done"
  /\ pg' = IF q[1].status = "resolved"
           THEN [pg EXCEPT !.pc = "done", !.status = "resolved",
                           !.pagination = Pagination(pg.page, pg.perPage, pg.totalCount,
                                                     pg.totalPages)]
           ELSE [pg EXCEPT !.pc = "done", !.status = "rejected"]
  /\ UNCHANGED <<qvars, txvars, bvars, xvars, ah, queryLog, poolsCreated>>


\* what a fresh helper holds besides the executor, the transactions and the
\* builder
InitRest ==
  /\ calls = << >>
  /\ cloned = NoClone
  /\ config = DefaultConfig
  /\ bi = IdleBatch
  /\ bp = IdleProcess
  /\ cn = [c \in ConnectCalls |-> IdleConnect]
  /\ ah = IdleHookCall
  /\ pg = IdlePaginate
  /\ queryLog = << >>
  /\ poolsCreated = 0

\* ---------------------------------------------------------------------------
\* The query executor: a fresh helper; callers issue queries in any
\* interleaving while time passes
\* ---------------------------------------------------------------------------
Init ==
  /\ now = 0
  /\ pool = FALSE
  /\ connection = FALSE
  /\ cacheEnabled = TRUE
  /\ cacheTTL = ConfigCacheTTL
  /\ hooks = [s \in Stages |-> << >>]
  /\ regLog = [s \in Stages |-> << >>]
  /\ cache = << >>
  /\ q = [c \in QueryCalls |-> IdleCall]
  /\ checkedOut = [k \in PoolConns |-> FALSE]
  /\ tx = [t \in TxCalls |-> IdleTx]
  /\ txOpen = [k \in Conns |-> FALSE]
  /\ pending = [k \in Conns |-> {}]
  /\ committed = {}
  /\ qb = reset
  /\ op = IdleOp
  /\ issued = << >>
  /\ InitRest

\* the same helper after addHook calls that left at most one callback per
\* stage of query()
InitQuery ==
  /\ now = 0
  /\ pool = FALSE
  /\ connection = FALSE
  /\ cacheEnabled \in BOOLEAN
  /\ cacheTTL = ConfigCacheTTL
  /\ hooks \in {h \in [Stages -> {<< >>, <<"h1">>}] :
                  \A s \in Stages \ QueryStages : h[s] = << >>}
  /\ regLog = hooks
  /\ cache = << >>
  /\ q = [c \in QueryCalls |-> IdleCall]
  /\ checkedOut = [k \in PoolConns |-> FALSE]
  /\ tx = [t \in TxCalls |-> IdleTx]
  /\ txOpen = [k \in Conns |-> FALSE]
  /\ pending = [k \in Conns |-> {}]
  /\ committed = {}
  /\ qb = reset
  /\ op = IdleOp
  /\ issued = << >>
  /\ InitRest

Next ==
  \/ \E c \in QueryCalls, st \in Statements, o \in QueryOptions :
        QueryCall(c, st[1], st[2], o)
  \/ \E c \in QueryCalls, ok \in BOOLEAN : HookResume(c, ok)
  \/ \E c \in QueryCalls : BeforeQueryReturn(c)
  \/ \E c \in QueryCalls : CreatePoolReturn(c)
  \/ \E c \in QueryCalls, k \in Conns : ExecDispatch(c, k)
  \/ \E c \in QueryCalls, ok \in BOOLEAN : ExecEnd(c, ok)
  \/ \E c \in QueryCalls : AfterQueryReturn(c)
  \/ \E c \in QueryCalls : OnErrorReturn(c)
  \/ Tick

Spec == InitQuery /\ [][Next]_vars

\* the same callers on a fresh helper with cache, next to clearCache() calls
\* that find something to clear or somebody under way; a query() sees at most
\* MaxClears of them
NextClear ==
  \/ \E c \in QueryCalls, st \in Statements, o \in QueryOptions :
        QueryCall(c, st[1], st[2], o)
  \/ \E c \in QueryCalls : BeforeQueryReturn(c)
  \/ \E c \in QueryCalls : CreatePoolReturn(c)
  \/ \E c \in QueryCalls, k \in Conns : ExecDispatch(c, k)
  \/ \E c \in QueryCalls, ok \in BOOLEAN : ExecEnd(c, ok)
  \/ \E c \in QueryCalls : AfterQueryReturn(c)
  \/ \E c \in QueryCalls : OnErrorReturn(c)
  \/ Tick
  \/ /\ cache # << >> \/ \E c \in QueryCalls : q[c].pc \notin {"idle", "done"}
     /\ \A c \in QueryCalls :
          Cardinality({i \in 1..Len(q[c].trace) : q[c].trace[i].ev = "cacheCleared"})
            < MaxClears
     /\ clearCache

SpecClear == Init /\ [][NextClear]_vars

\* ---------------------------------------------------------------------------
\* The hook pipeline seen from one query: hooks are registered while it runs
\* ---------------------------------------------------------------------------
Registrations == Len(regLog["beforeQuery"]) + Len(regLog["afterQuery"])
                   + Len(regLog["onError"])

NextHooks ==
  \/ \E s \in QueryStages, cb \in Callbacks :
        Registrations < MaxHooks /\ addHook(s, cb)
  \/ \E st \in Statements, o \in QueryOptions : QueryCall(1, st[1], st[2], o)
  \/ \E ok \in BOOLEAN : HookResume(1, ok)
  \/ BeforeQueryReturn(1)
  \/ CreatePoolReturn(1)
  \/ \E k \in Conns : ExecDispatch(1, k)
  \/ \E ok \in BOOLEAN : ExecEnd(1, ok)
  \/ AfterQueryReturn(1)
  \/ OnErrorReturn(1)

SpecHooks == Init /\ [][NextHooks]_vars

\* addHook alone, with any name
AllRegistrations(h) ==
  Len(h["beforeQuery"]) + Len(h["afterQuery"]) + Len(h["onError"])
  + Len(h["beforeInsert"]) + Len(h["afterInsert"])
  + Len(h["beforeUpdate"]) + Len(h["afterUpdate"])

NextAddHook ==
  \E name \in HookNames, cb \in Callbacks :
     AllRegistrations(hooks) < MaxHooks /\ addHook(name, cb)

SpecAddHook == Init /\ [][NextAddHook]_vars

\* ---------------------------------------------------------------------------
\* A helper with cache and query log that has a pool, a connection, both or
\* neither: callers issue queries, call createPool() and clear the log
\* ---------------------------------------------------------------------------
InitExecutor ==
  /\ now = 0
  /\ pool \in BOOLEAN
  /\ connection \in BOOLEAN
  /\ cacheEnabled = TRUE
  /\ cacheTTL = ConfigCacheTTL
  /\ hooks = [s \in Stages |-> << >>]
  /\ regLog = [s \in Stages |-> << >>]
  /\ cache = << >>
  /\ q = [c \in QueryCalls |-> IdleCall]
  /\ checkedOut = [k \in PoolConns |-> FALSE]
  /\ tx = [t \in TxCalls |-> IdleTx]
  /\ txOpen = [k \in Conns |-> FALSE]
  /\ pending = [k \in Conns |-> {}]
  /\ committed = {}
  /\ qb = reset
  /\ op = IdleOp
  /\ issued = << >>
  /\ calls = << >>
  /\ cloned = NoClone
  /\ config = [DefaultConfig EXCEPT !.logQueries = TRUE]
  /\ bi = IdleBatch
  /\ bp = IdleProcess
  /\ cn = [c \in ConnectCalls |-> IdleConnect]
  /\ ah = IdleHookCall
  /\ pg = IdlePaginate
  /\ queryLog = << >>
  /\ poolsCreated = 0

NextExecutor ==
  \/ \E c \in QueryCalls, st \in Statements, o \in QueryOptions :
        o.cacheTTL = "undefined" /\ QueryCall(c, st[1], st[2], o)
  \/ \E c \in QueryCalls : BeforeQueryReturn(c)
  \/ \E c \in QueryCalls : CreatePoolReturn(c)
  \/ \E c \in QueryCalls, k \in Conns : ExecDispatch(c, k)
  \/ \E c \in QueryCalls, ok \in BOOLEAN : ExecEnd(c, ok)
  \/ \E c \in QueryCalls : AfterQueryReturn(c)
  \/ \E c \in QueryCalls : OnErrorReturn(c)
  \/ createPool
  \/ queryLog # << >> /\ clearQueryLog

SpecExecutor == InitExecutor /\ [][NextExecutor]_vars

\* addHook and removeHook, with any name
NextRemoveHook ==
  \/ \E name \in HookNames, cb \in Callbacks :
        AllRegistrations(hooks) < MaxHooks /\ addHook(name, cb)
  \/ \E name \in HookNames, cb \in Callbacks : removeHook(name, cb)

SpecRemoveHook == Init /\ [][NextRemoveHook]_vars

\* ---------------------------------------------------------------------------
\* Transactions next to a plain query, on a helper that has a pool or has the
\* single connection of connect(); no cache, no hooks
\* ---------------------------------------------------------------------------
InitTx ==
  /\ now = 0
  /\ pool \in BOOLEAN
  /\ connection = ~pool
  /\ cacheEnabled = FALSE
  /\ cacheTTL = ConfigCacheTTL
  /\ hooks = [s \in Stages |-> << >>]
  /\ regLog = [s \in Stages |-> << >>]
  /\ cache = << >>
  /\ q = [c \in QueryCalls |-> IdleCall]
  /\ checkedOut = [k \in PoolConns |-> FALSE]
  /\ tx = [t \in TxCalls |-> IdleTx]
  /\ txOpen = [k \in Conns |-> FALSE]
  /\ pending = [k \in Conns |-> {}]
  /\ committed = {}
  /\ qb = reset
  /\ op = IdleOp
  /\ issued = << >>
  /\ InitRest

NextTx ==
  \/ \E t \in TxCalls : transaction(t)
  \/ \E t \in TxCalls, k \in Conns \cup {NoConn}, ok \in BOOLEAN : TxAcquire(t, k, ok)
  \/ \E t \in TxCalls, ok \in BOOLEAN : TxBegin(t, ok)
  \/ \E t \in TxCalls : TxWrite(t)
  \/ \E t \in TxCalls, ok \in BOOLEAN : TxCallbackEnd(t, ok)
  \/ \E t \in TxCalls, ok \in BOOLEAN : TxCommit(t, ok)
  \/ \E t \in TxCalls, ok \in BOOLEAN : TxRollback(t, ok)
  \/ QueryCall(1, "sqlA", <<"NaN">>, [cache |-> TRUE, cacheTTL |-> "undefined"])
  \/ BeforeQueryReturn(1)
  \/ \E k \in Conns : ExecDispatch(1, k)
  \/ \E ok \in BOOLEAN : ExecEnd(1, ok)
  \/ AfterQueryReturn(1)
  \/ OnErrorReturn(1)

SpecTx == InitTx /\ [][NextTx]_vars

\* ---------------------------------------------------------------------------
\* One query builder: fluent calls, then a terminal operation, repeatedly
\* ---------------------------------------------------------------------------
Tables == {"users"}
Columns == {"a"}
Values == {"v1"}

NextQB ==
  \/ \E t \in Tables : Fluent(table(qb, t))
  \/ Fluent(select(qb, <<"a", "b">>))
  \/ \E c \in Columns, v \in Values :
        Len(qb._where) < MaxClauses /\ Fluent(where(qb, c, "=", v))
  \/ \E c \in Columns, v \in Values :
        Len(qb._where) < MaxClauses /\ Fluent(orWhere(qb, c, "=", v))
  \/ \E c \in Columns, vs \in {<<"v1", "v2">>} :
        Len(qb._where) < MaxClauses /\ Fluent(whereIn(qb, c, vs))
  \/ Len(qb._joins) < 1 /\ Fluent(join(qb, "orders", "users.id", "=", "orders.user_id"))
  \/ Fluent(limit(qb, 2))
  \/ Fluent(offset(qb, 1))
  \/ \E kind \in {"get", "first", "count", "exists"} : Terminal(kind, 1, 1)
  \/ \E page \in 1..2, perPage \in 1..2 : Terminal("paginate", page, perPage)
  \/ \E ok \in BOOLEAN, n \in 0..MaxRows, cnt \in 0..MaxRows : DbQueryReturn(ok, n, cnt)
  \/ \E ok \in BOOLEAN, n \in 0..MaxRows : PageQueryReturn(ok, n)

SpecQB == Init /\ [][NextQB]_vars

\* ---------------------------------------------------------------------------
\* Chains of builder calls and the statement they compile to
\* ---------------------------------------------------------------------------
RawConditions == {[text |-> <<"a = 1">>, n |-> 0],
                  [text |-> <<"a", ">", "?", "AND", "b", "<", "?">>, n |-> 2]}

NextSQL ==
  \/ Build("where", where(qb, "a", "=", NextVals(1)[1]), TRUE, NextVals(1))
  \/ Build("orWhere", orWhere(qb, "a", "=", NextVals(1)[1]), TRUE, NextVals(1))
  \/ \E n \in 0..2 : Build("whereIn", whereIn(qb, "a", NextVals(n)), TRUE, NextVals(n))
  \/ \E n \in 0..2 : Build("whereNotIn", whereNotIn(qb, "a", NextVals(n)), TRUE, NextVals(n))
  \/ Build("whereBetween", whereBetween(qb, "a", NextVals(2)[1], NextVals(2)[2]), TRUE, NextVals(2))
  \/ Build("whereNotBetween", whereNotBetween(qb, "a", NextVals(2)[1], NextVals(2)[2]), TRUE, NextVals(2))
  \/ Build("whereNull", whereNull(qb, "a"), TRUE, << >>)
  \/ Build("whereNotNull", whereNotNull(qb, "a"), TRUE, << >>)
  \/ Build("whereLike", whereLike(qb, "a", NextVals(1)[1]), TRUE, NextVals(1))
  \/ Build("whereNotLike", whereNotLike(qb, "a", NextVals(1)[1]), TRUE, NextVals(1))
  \/ \E r \in RawConditions : Build("whereRaw", whereRaw(qb, r.text, NextVals(r.n)), TRUE, NextVals(r.n))
  \/ Build("join", join(qb, "orders", "users.id", "=", "orders.user_id"), FALSE, << >>)
  \/ Build("leftJoin", leftJoin(qb, "orders", "users.id", "=", "orders.user_id"), FALSE, << >>)
  \/ Build("rightJoin", rightJoin(qb, "orders", "users.id", "=", "orders.user_id"), FALSE, << >>)
  \/ Build("crossJoin", crossJoin(qb, "orders"), FALSE, << >>)
  \/ Build("orderBy", orderBy(qb, "a", "DESC"), FALSE, << >>)
  \/ Build("orderByRaw", orderByRaw(qb, "RAND()"), FALSE, << >>)
  \/ Build("groupBy", groupBy(qb, <<"a", "b">>), FALSE, << >>)
  \/ Build("having", having(qb, "COUNT(*) > 1"), FALSE, << >>)
  \/ Build("limit", limit(qb, 2), FALSE, << >>)
  \/ Build("offset", offset(qb, 1), FALSE, << >>)
  \/ \E t \in Tables : Build("table", table(qb, t), FALSE, << >>)
  \/ Build("select", select(qb, <<"a", "b">>), FALSE, << >>)

SpecSQL == Init /\ [][NextSQL]_vars

\* ---------------------------------------------------------------------------
\* A builder and its clone, each called in any order
\* ---------------------------------------------------------------------------
Sides == {"original", "clone"}

NextClone ==
  \/ CloneCall
  \/ \E side \in Sides :
        Len(Target(side)._where) < MaxClauses
        /\ BuilderCall(side, where(Target(side), "a", "=", side), {})
  \/ \E side \in Sides :
        Len(Target(side)._joins) < 1
        /\ BuilderCall(side, join(Target(side), "orders", "users.id", "=", "orders.user_id"), {})
  \/ \E side \in Sides :
        Len(Target(side)._orderBy) < 1
        /\ BuilderCall(side, orderBy(Target(side), "a", "DESC"), {})
  \/ \E side \in Sides :
        Len(Target(side)._groupBy) < 1
        /\ BuilderCall(side, groupBy(Target(side), <<"a">>), {})
  \/ \E side \in Sides : BuilderCall(side, select(Target(side), <<"a", "b">>), {"_columns"})
  \/ \E side \in Sides : BuilderCall(side, limit(Target(side), 2), {})
  \/ \E side \in Sides : BuilderCall(side, reset, ArrayFields)

SpecClone == Init /\ [][NextClone]_vars

\* ---------------------------------------------------------------------------
\* batchInsert on a fresh helper, with the cache and the timestamps on or off
\* ---------------------------------------------------------------------------
SeqsUpTo(S, n) == UNION {[1..k -> S] : k \in 0..n}

DataArrays == {Undefined} \cup {Array(items) : items \in SeqsUpTo(ItemValues, MaxItems)}

InitBatch ==
  /\ now = 0
  /\ pool = FALSE
  /\ connection = FALSE
  /\ cacheEnabled \in BOOLEAN
  /\ cacheTTL = ConfigCacheTTL
  /\ hooks = [s \in Stages |-> << >>]
  /\ regLog = [s \in Stages |-> << >>]
  /\ cache = << >>
  /\ q = [c \in QueryCalls |-> IdleCall]
  /\ checkedOut = [k \in PoolConns |-> FALSE]
  /\ tx = [t \in TxCalls |-> IdleTx]
  /\ txOpen = [k \in Conns |-> FALSE]
  /\ pending = [k \in Conns |-> {}]
  /\ committed = {}
  /\ qb = reset
  /\ op = IdleOp
  /\ issued = << >>
  /\ calls = << >>
  /\ cloned = NoClone
  /\ config \in {[DefaultConfig EXCEPT !.timestamps = b] : b \in BOOLEAN}
  /\ bi = IdleBatch
  /\ bp = IdleProcess
  /\ cn = [c \in ConnectCalls |-> IdleConnect]
  /\ ah = IdleHookCall
  /\ pg = IdlePaginate
  /\ queryLog = << >>
  /\ poolsCreated = 0

NextBatch ==
  \/ \E d \in DataArrays, c \in 1..MaxItems : batchInsert(d, c)
  \/ \E d \in DataArrays : insertManyCall(d)
  \/ BeforeQueryReturn(1)
  \/ CreatePoolReturn(1)
  \/ \E k \in Conns : ExecDispatch(1, k)
  \/ \E ok \in BOOLEAN : ExecEnd(1, ok)
  \/ AfterQueryReturn(1)
  \/ OnErrorReturn(1)
  \/ InsertManyReturn
  \/ Tick

SpecBatch == InitBatch /\ [][NextBatch]_vars

\* ---------------------------------------------------------------------------
\* One query() on a helper with hooks registered, with the cache and the
\* query log on or off
\* ---------------------------------------------------------------------------
InitPipeline ==
  /\ now = 0
  /\ pool = FALSE
  /\ connection = FALSE
  /\ cacheEnabled \in BOOLEAN
  /\ cacheTTL = ConfigCacheTTL
  /\ hooks \in {h \in [Stages -> SeqsUpTo(Callbacks, MaxHooks - 1)] :
                  \A st \in Stages \ {"beforeQuery", "afterQuery"} : h[st] = << >>}
  /\ regLog = hooks
  /\ cache = << >>
  /\ q = [c \in QueryCalls |-> IdleCall]
  /\ checkedOut = [k \in PoolConns |-> FALSE]
  /\ tx = [t \in TxCalls |-> IdleTx]
  /\ txOpen = [k \in Conns |-> FALSE]
  /\ pending = [k \in Conns |-> {}]
  /\ committed = {}
  /\ qb = reset
  /\ op = IdleOp
  /\ issued = << >>
  /\ calls = << >>
  /\ cloned = NoClone
  /\ config \in {[DefaultConfig EXCEPT !.logQueries = b] : b \in BOOLEAN}
  /\ bi = IdleBatch
  /\ bp = IdleProcess
  /\ cn = [c \in ConnectCalls |-> IdleConnect]
  /\ ah = IdleHookCall
  /\ pg = IdlePaginate
  /\ queryLog = << >>
  /\ poolsCreated = 0

NextPipeline ==
  \/ \E st \in Statements, o \in QueryOptions : QueryCall(1, st[1], st[2], o)
  \/ \E ok \in BOOLEAN : HookResume(1, ok)
  \/ BeforeQueryReturn(1)
  \/ CreatePoolReturn(1)
  \/ \E k \in Conns : ExecDispatch(1, k)
  \/ \E ok \in BOOLEAN : ExecEnd(1, ok)
  \/ AfterQueryReturn(1)
  \/ OnErrorReturn(1)

SpecPipeline == InitPipeline /\ [][NextPipeline]_vars

\* ---------------------------------------------------------------------------
\* delete() calls, in any interleaving, while time passes
\* ---------------------------------------------------------------------------
NextDelete ==
  \/ \E c \in QueryCalls, w \in {<<"v1">>, <<"v2">>, <<"v1", "v2">>} : delete(c, w)
  \/ \E c \in QueryCalls, ok \in BOOLEAN : HookResume(c, ok)
  \/ \E c \in QueryCalls : BeforeQueryReturn(c)
  \/ \E c \in QueryCalls : CreatePoolReturn(c)
  \/ \E c \in QueryCalls, k \in Conns : ExecDispatch(c, k)
  \/ \E c \in QueryCalls, ok \in BOOLEAN : ExecEnd(c, ok)
  \/ \E c \in QueryCalls : AfterQueryReturn(c)
  \/ \E c \in QueryCalls : OnErrorReturn(c)
  \/ Tick

SpecDelete == InitQuery /\ [][NextDelete]_vars

\* ---------------------------------------------------------------------------
\* MySQLHelper.paginate on a fresh helper
\* ---------------------------------------------------------------------------
Pages == 1..3
PerPages == 1..2

NextPaginate ==
  \/ \E page \in Pages, perPage \in PerPages, w \in SeqsUpTo(Values, 2) :
        paginate(page, perPage, w)
  \/ BeforeQueryReturn(1)
  \/ CreatePoolReturn(1)
  \/ \E k \in Conns : ExecDispatch(1, k)
  \/ \E ok \in BOOLEAN : ExecEnd(1, ok)
  \/ AfterQueryReturn(1)
  \/ OnErrorReturn(1)
  \/ \E cnt \in 0..MaxRows : CountReturn(cnt)
  \/ SelectReturn

SpecPaginate == Init /\ [][NextPaginate]_vars

\* ---------------------------------------------------------------------------
\* batchProcess with a processor that may reject any chunk
\* ---------------------------------------------------------------------------
NextProcess ==
  \/ /\ bp.pc = "idle"
     /\ \E n \in 0..MaxTotal, b \in 1..MaxTotal, c \in 1..MaxConcurrency, f \in BOOLEAN :
           batchProcess(n, b, c, f)
  \/ \E k \in bp.inflight, ok \in BOOLEAN : ProcessorEnd(k, ok)
  \/ WindowReturn

SpecProcess == Init /\ [][NextProcess]_vars

\* ---------------------------------------------------------------------------
\* connect() calls on a helper without a connection.  Every createConnection
\* settles (the driver's connectTimeout) and every timer fires.
\* ---------------------------------------------------------------------------
InitConnect ==
  /\ now = 0
  /\ pool = FALSE
  /\ connection = FALSE
  /\ cacheEnabled = FALSE
  /\ cacheTTL = ConfigCacheTTL
  /\ hooks = [s \in Stages |-> << >>]
  /\ regLog = [s \in Stages |-> << >>]
  /\ cache = << >>
  /\ q = [c \in QueryCalls |-> IdleCall]
  /\ checkedOut = [k \in PoolConns |-> FALSE]
  /\ tx = [t \in TxCalls |-> IdleTx]
  /\ txOpen = [k \in Conns |-> FALSE]
  /\ pending = [k \in Conns |-> {}]
  /\ committed = {}
  /\ qb = reset
  /\ op = IdleOp
  /\ issued = << >>
  /\ calls = << >>
  /\ cloned = NoClone
  /\ config \in {[DefaultConfig EXCEPT !.retryAttempts = a, !.retryDelay = d] :
                    a \in 1..MaxRetry, d \in 1..2}
  /\ bi = IdleBatch
  /\ bp = IdleProcess
  /\ cn = [c \in ConnectCalls |-> IdleConnect]
  /\ ah = IdleHookCall
  /\ pg = IdlePaginate
  /\ queryLog = << >>
  /\ poolsCreated = 0

NextConnect ==
  \/ \E c \in ConnectCalls : connect(c)
  \/ \E c \in ConnectCalls, ok \in BOOLEAN : CreateConnectionEnd(c, ok)
  \/ \E c \in ConnectCalls : SleepEnd(c)

SpecConnect ==
  /\ InitConnect
  /\ [][NextConnect]_vars
  /\ \A c \in ConnectCalls :
        /\ WF_vars(\E ok \in BOOLEAN : CreateConnectionEnd(c, ok))
        /\ WF_vars(SleepEnd(c))

\* ---------------------------------------------------------------------------
\* Properties
\* ---------------------------------------------------------------------------
IsPrefix(a, b) == Len(a) <= Len(b) /\ \A i \in 1..Len(a) : a[i] = b[i]

HasEv(trace, name) == \E i \in DOMAIN trace : trace[i].ev = name

CountEv(trace, name) == Cardinality({i \in DOMAIN trace : trace[i].ev = name})

\* the callbacks of the events `name` of stage `stage`, in trace order
CbsOf(trace, name, stage) ==
  LET Test(e) == e.ev = name /\ e.stage = stage
      sel == SelectSeq(trace, Test)
  IN [i \in 1..Len(sel) |-> sel[i].cb]

StartsNow(c) == q[c].pc = "idle" /\ q'[c].pc # "idle"

\* C1: a query() whose key has an unexpired cache entry (caching enabled, not
\* disabled for the call) returns the cached value at once and emits cacheHit;
\* the call is then over: no hook of any stage runs and no statement executes.
C1_CacheHitShortCircuits ==
  [][\A c \in QueryCalls :
       /\ (/\ StartsNow(c)
           /\ cacheEnabled
           /\ q'[c].opts.cache
           /\ _getCacheKey(q'[c].sql, q'[c].params) \in DOMAIN cache
           /\ now < cache[_getCacheKey(q'[c].sql, q'[c].params)].expiry)
          => /\ q'[c].pc = "done"
             /\ q'[c].status = "resolved"
             /\ q'[c].value = cache[_getCacheKey(q'[c].sql, q'[c].params)].data
             /\ q'[c].trace = <<Ev("cacheHit", "-", "-", NoErr)>>
             /\ q'[c].execs = 0
       /\ q[c].pc = "done" => q'[c] = q[c]]_vars

C1_Witness ==
  \E c \in QueryCalls :
    /\ q[c].pc = "done"
    /\ q[c].trace = <<Ev("cacheHit", "-", "-", NoErr)>>
    /\ hooks["beforeQuery"] # << >>
    /\ hooks["afterQuery"] # << >>

\* C2: two query() calls with the same sql and params, caching enabled. If the
\* second is issued before the entry the first wrote expires, it returns the
\* same result object with exactly one cacheHit and the statement ran once in
\* all; if it is issued at or after the expiry, it emits no cacheHit, the
\* stale entry is deleted by that read and the call goes on to execute the
\* statement. The entry expires ttl after it was written.
C2_Lookup ==
  \A a, b \in QueryCalls :
    LET key == _getCacheKey(q'[b].sql, q'[b].params)
    IN (/\ a # b
        /\ StartsNow(b)
        /\ cacheEnabled /\ q'[b].opts.cache /\ q[a].opts.cache
        /\ q[a].status = "resolved" /\ q[a].execs = 1
        /\ q'[b].sql = q[a].sql /\ q'[b].params = q[a].params
        /\ key \in DOMAIN cache
        /\ cache[key].data = q[a].rows)
       => IF now < cache[key].expiry
          THEN /\ q'[b].pc = "done" /\ q'[b].status = "resolved"
               /\ q'[b].value = q[a].value
               /\ CountEv(q'[b].trace, "cacheHit") = 1
               /\ q'[a].execs + q'[b].execs = 1
          ELSE /\ key \notin DOMAIN cache'
               /\ q'[b].pc = "beforeQuery"
               /\ ~HasEv(q'[b].trace, "cacheHit")

C2_Write ==
  \A a \in QueryCalls :
    (q[a].pc = "afterQuery" /\ q'[a].pc = "done" /\ cacheEnabled /\ q[a].opts.cache)
    => LET key == _getCacheKey(q[a].sql, q[a].params)
       IN /\ key \in DOMAIN cache'
          /\ cache'[key].data = q[a].rows
          /\ cache'[key].expiry =
               now + (IF q[a].opts.cacheTTL = "undefined" THEN cacheTTL
                      ELSE TTLValue(q[a].opts.cacheTTL))

C2_Outcome ==
  \A b \in QueryCalls :
    /\ HasEv(q[b].trace, "cacheHit") => q[b].execs = 0 /\ Len(q[b].trace) = 1
    /\ (q[b].status = "resolved" /\ ~HasEv(q[b].trace, "cacheHit")) => q[b].execs = 1

C2_CacheRoundTrip == []C2_Outcome /\ [][C2_Lookup /\ C2_Write]_vars

C2_Witness ==
  /\ q[1].status = "resolved" /\ q[1].execs = 1
  /\ q[2].pc = "done" /\ q[2].sql = q[1].sql /\ q[2].params = q[1].params
  /\ q[2].trace = <<Ev("cacheHit", "-", "-", NoErr)>>
  /\ q[2].value = q[1].rows
  /\ now > 0

\* C3: when a query() call has failed and an onError hook throws as well, the
\* call still rejects with the wrapped original error and queryError is
\* still emitted.
C3_OnErrorFailureDoesNotMask ==
  \A c \in QueryCalls :
    (/\ q[c].pc = "done"
     /\ q[c].error # NoErr
     /\ \E i \in DOMAIN q[c].trace :
          /\ q[c].trace[i].ev = "hookEnd"
          /\ q[c].trace[i].stage = "onError"
          /\ q[c].trace[i].err # NoErr)
    => /\ q[c].status = "rejected"
       /\ q[c].rejection = [wrapped |-> TRUE, cause |-> q[c].error]
       /\ HasEv(q[c].trace, "queryError")

\* C4: whenever a beforeQuery hook, the execution or an afterQuery hook fails,
\* every registered onError hook runs once, then queryError is emitted, then
\* query() rejects with the wrapping error; the call never resolves, and after
\* a beforeQuery failure the statement is never executed.
C4_FailureRoutesThroughOnError ==
  \A c \in QueryCalls :
    /\ q[c].error # NoErr => q[c].status # "resolved"
    /\ q[c].error.src = "beforeQuery" => q[c].execs = 0
    /\ (q[c].pc = "done" /\ q[c].error # NoErr)
       => /\ CbsOf(q[c].trace, "hookStart", "onError") = q[c].itArr
          /\ CbsOf(q[c].trace, "hookEnd", "onError") = q[c].itArr
          /\ q[c].trace[Len(q[c].trace)] = Ev("queryError", "-", "-", q[c].error)
          /\ q[c].status = "rejected"
          /\ q[c].rejection = [wrapped |-> TRUE, cause |-> q[c].error]

\* C9: one run of a stage invokes the stage's callbacks in registration order,
\* skipping none, one at a time: a callback is started only when the one
\* before it has completed, and a run that no callback aborted has invoked
\* the whole list.
C9_HooksInOrderOneAtATime ==
  \A c \in QueryCalls : \A s \in QueryStages :
    LET starts == CbsOf(q[c].trace, "hookStart", s)
        ends == CbsOf(q[c].trace, "hookEnd", s)
    IN /\ IsPrefix(starts, regLog[s])
       /\ IsPrefix(ends, starts)
       /\ Len(starts) <= Len(ends) + 1
       /\ (q[c].stage = s /\ q[c].running) <=> (Len(starts) = Len(ends) + 1)
       /\ (q[c].stage = s /\ ~q[c].running /\ q[c].error.src # s
           /\ ~(s = "onError" /\ q[c].status = "rejected" /\ ~q[c].rejection.wrapped))
          => starts = q[c].itArr

C9_Witness ==
  /\ regLog["beforeQuery"] = <<"h1", "h2">>
  /\ CbsOf(q[1].trace, "hookStart", "beforeQuery") = <<"h1", "h2">>
  /\ CbsOf(q[1].trace, "hookEnd", "beforeQuery") = <<"h1", "h2">>

HasTxEv(t, name) == \E i \in DOMAIN tx[t].trace : tx[t].trace[i].ev = name

\* C5 as stated: the callback resolving leads to commit, transactionCommitted
\* and the callback's result; the callback rejecting leads to no commit, a
\* rollback, transactionRolledBack with the error and a rejection; rollback is
\* invoked exactly when the callback or the commit failed.
C5_AsStated ==
  \A t \in TxCalls :
    (tx[t].pc = "done" /\ tx[t].cb # "none")
    => /\ tx[t].cb = "resolved"
          => /\ tx[t].commits = 1
             /\ HasTxEv(t, "transactionCommitted")
             /\ tx[t].status = "resolved" /\ tx[t].value = "result"
       /\ tx[t].cb = "rejected"
          => /\ tx[t].commits = 0 /\ tx[t].rollbacks = 1
             /\ TxEv("transactionRolledBack", tx[t].error) \in
                  {tx[t].trace[i] : i \in DOMAIN tx[t].trace}
             /\ tx[t].status = "rejected"
       /\ (tx[t].rollbacks >= 1) <=> (tx[t].cb = "rejected" \/ tx[t].commit = "failed")

\* C5 (amended): the callback is invoked only after begin succeeded on the
\* acquired connection. If it resolves, commit is invoked; when that commit
\* succeeds transactionCommitted is emitted and the callback's result is
\* returned, with no rollback. If it rejects, commit is never invoked and
\* rollback is invoked. Rollback is invoked (once) exactly when the callback
\* or the commit failed, transaction() then rejects, and transactionRolledBack
\* carrying that error is emitted exactly when the rollback succeeded.
C5_CommitOrRollback ==
  \A t \in TxCalls :
    /\ tx[t].cb # "none"
       => /\ tx[t].began /\ tx[t].conn # NoConn
          /\ tx[t].trace[1] = TxEv("transactionStarted", "none")
    /\ tx[t].cb = "resolved" => tx[t].commits = 1
    /\ tx[t].cb = "rejected" => tx[t].commits = 0 /\ tx[t].rollbacks = 1
    /\ tx[t].rollbacks <= 1
    /\ (tx[t].rollbacks = 1) <=> (tx[t].cb = "rejected" \/ tx[t].commit = "failed")
    /\ HasTxEv(t, "transactionCommitted") <=> tx[t].commit = "ok"
    /\ tx[t].commit = "ok"
       => /\ tx[t].status = "resolved" /\ tx[t].value = "result"
          /\ tx[t].rollbacks = 0
    /\ (tx[t].pc = "done" /\ tx[t].rollbacks = 1)
       => /\ tx[t].status = "rejected"
          /\ HasTxEv(t, "transactionRolledBack") <=> tx[t].rollback = "ok"
          /\ tx[t].rollback = "ok"
             => tx[t].trace[Len(tx[t].trace)] =
                  TxEv("transactionRolledBack",
                       IF tx[t].cb = "rejected" THEN "callback" ELSE "commit")

C5_Witness ==
  \E t \in TxCalls :
    /\ tx[t].pc = "done" /\ tx[t].cb = "resolved"
    /\ tx[t].commit = "failed" /\ tx[t].rollback = "ok"
    /\ tx[t].status = "rejected"

\* C6: a transaction() call that took its connection from the pool and began
\* calls release() on it exactly once, by the time it settles and not before,
\* whether the callback succeeded or failed and whether commit or rollback threw.
C6_ReleasedExactlyOnce ==
  \A t \in TxCalls :
    (tx[t].via = "pool" /\ tx[t].began)
    => /\ tx[t].pc = "done" => tx[t].released = 1
       /\ tx[t].pc # "done" => tx[t].released = 0 /\ checkedOut[tx[t].conn]

C6_Witness ==
  \E t \in TxCalls :
    /\ tx[t].via = "pool" /\ tx[t].pc = "done"
    /\ tx[t].rollback = "failed" /\ tx[t].commit = "failed"
    /\ tx[t].released = 1

\* C7: once transaction() has settled, the writes its callback issued on the
\* transaction connection are visible exactly when it resolved; after a
\* rejection none of them is.
C7_Atomicity ==
  \A t \in TxCalls :
    (tx[t].pc = "done" /\ tx[t].cb # "none")
    => /\ tx[t].status = "resolved" => WritesOf(t) \subseteq committed
       /\ tx[t].status = "rejected" => WritesOf(t) \cap committed = {}

\* C8: from begin until commit or rollback the connection of a transaction()
\* call is used by nothing else: no other transaction() holds it and no
\* query() executes a statement on it.
TxActive(t) == tx[t].pc \in {"callback", "commit", "rollback"}

C8_ExclusiveConnection ==
  \A t \in TxCalls :
    TxActive(t)
    => /\ \A u \in TxCalls \ {t} : TxActive(u) => tx[u].conn # tx[t].conn
       /\ \A c \in QueryCalls : q[c].pc = "execute" => q[c].conn # tx[t].conn

\* with a pool the connection is exclusive and rollback is total
PoolModeExclusiveAndAtomic == pool => (C7_Atomicity /\ C8_ExclusiveConnection)

IsInfix(a, b) ==
  \E i \in 0..(Len(b) - Len(a)) : SubSeq(b, i + 1, i + Len(a)) = a

EndsWith(b, a) == Len(a) <= Len(b) /\ SubSeq(b, Len(b) - Len(a) + 1, Len(b)) = a

\* the statement names the table, joins and predicates of builder state b and
\* binds its parameters
Carries(stmt, b) == IsInfix(FromWhere(b), stmt.sql) /\ stmt.params = b._whereParams

\* C10: paginate(page, perPage) issues a count query and then a page query
\* that both carry the table, joins and predicates (with their parameters)
\* the builder had when paginate was called; the page query also ends in
\* LIMIT perPage OFFSET (page-1)*perPage.
C10_PaginateCarriesFilter ==
  (op.kind = "paginate" /\ Len(issued) >= 1)
  => /\ Carries(issued[1], op.atCall)
     /\ Len(issued) = 2
        => /\ Carries(issued[2], op.atCall)
           /\ EndsWith(issued[2].sql,
                       <<"LIMIT", ToString(op.perPage),
                         "OFFSET", ToString((op.page - 1) * op.perPage)>>)

\* the count query of paginate does carry the filter; the page query always
\* has the limit and offset
C10_CountQueryCarriesFilter ==
  (op.kind = "paginate" /\ Len(issued) >= 1)
  => /\ Carries(issued[1], op.atCall)
     /\ Len(issued) = 2
        => EndsWith(issued[2].sql,
                    <<"LIMIT", ToString(op.perPage),
                      "OFFSET", ToString((op.page - 1) * op.perPage)>>)

\* C11: when get() has resolved, the builder is in its initial state; a second
\* get() on the same instance, with no builder call in between, compiles and
\* sends the default statement (SELECT * FROM with an empty table name) with
\* no parameters.
C11_GetResetsBuilder ==
  /\ (op.kind = "get" /\ op.phase = 0 /\ op.status = "resolved") => qb = reset
  /\ (op.kind = "get" /\ op.prev.kind = "get" /\ op.prev.status = "resolved")
     => /\ op.atCall = reset
        /\ issued = <<[sql |-> <<"SELECT", "*", "FROM", "">>, params |-> << >>]>>

C11_Witness ==
  /\ op.ops = 2 /\ op.kind = "get" /\ op.status = "resolved"
  /\ op.prev.kind = "get" /\ op.prev.status = "resolved" /\ op.prev.built

Holes(tokens) == Cardinality({i \in DOMAIN tokens : tokens[i] = "?"})

\* the values the calls of a chain bound, in call order
RECURSIVE BoundBy(_)
BoundBy(chain) ==
  IF chain = << >> THEN << >> ELSE Head(chain).vals \o BoundBy(Tail(chain))

\* C12: after any chain of builder calls the statement of toSQL() has as many
\* '?' placeholders as parameters, the parameters are the bound values in
\* the order of the calls that bound them, and the predicate fragments stand
\* in call order, each with as many placeholders as its call bound values.
C12_PlaceholdersMatchParams ==
  LET stmt == toSQL(qb)
      IsPred(e) == e.pred
      preds == SelectSeq(calls, IsPred)
  IN /\ Holes(stmt.sql) = Len(stmt.params)
     /\ stmt.params = BoundBy(calls)
     /\ Len(qb._where) = Len(preds)
     /\ \A i \in 1..Len(preds) : Holes(qb._where[i]) = Len(preds[i].vals)

C12_Witness ==
  /\ Holes(toSQL(qb).sql) = 4
  /\ Len(qb._where) = 2
  /\ Len(qb._joins) = 1

\* C18: clone() returns a builder that compiles to the statement the original
\* compiles to at that moment; afterwards a call on the clone leaves the
\* original's statement as it was, and a call on the original leaves the
\* clone's.
C18_CloneIndependent ==
  [][/\ (~cloned.exists /\ cloned'.exists)
        => (toSQL(cloned'.b) = toSQL(qb) /\ toSQL(qb') = toSQL(qb))
     /\ (cloned.exists /\ cloned'.last = "clone") => toSQL(qb') = toSQL(qb)
     /\ (cloned.exists /\ cloned'.last = "original")
        => toSQL(cloned'.b) = toSQL(cloned.b)]_vars

C18_Witness ==
  /\ cloned.exists
  /\ qb._whereParams = <<"original">>
  /\ cloned.b._whereParams = <<"original", "clone">>
  /\ qb._joins # << >>
  /\ cloned.b._joins = << >>

\* the batchProgress signals of the first k chunks of n items in chunks of c
ProgressUpTo(k, n, c) ==
  [j \in 1..k |-> [current |-> j, total |-> Ceil(n, c), processedRows |-> Min(j * c, n)]]

\* C13: a batchInsert of n >= 1 items in chunks of c whose chunk inserts all
\* succeed resolves with totalBatches = ceil(n/c) and totalInserted = n and
\* has emitted exactly ceil(n/c) batchProgress signals, with current = 1, 2,
\* ..., ceil(n/c) in that order, total = ceil(n/c) and processedRows =
\* min(current*c, n); it rejects only when a chunk insert failed.
C13_BatchInsertResult ==
  LET n == Len(bi.items)
      c == bi.batchSize
  IN bi.kind = "batchInsert" =>
     /\ bi.pc = "insertMany" => bi.progress = ProgressUpTo(bi.i, n, c)
     /\ (bi.pc = "done" /\ bi.status = "resolved")
        => /\ bi.value = [totalBatches |-> Ceil(n, c), totalInserted |-> n]
           /\ bi.progress = ProgressUpTo(Ceil(n, c), n, c)
           /\ \A k \in 1..Len(bi.chunks) : bi.log[3 * k - 1] = BatchEv("insertEnd", k)
     /\ (bi.pc = "done" /\ bi.status = "rejected" /\ n >= 1)
        => /\ q[1].status = "rejected"
           /\ bi.log[Len(bi.log)] = BatchEv("insertFailed", Len(bi.chunks))

C13_Witness ==
  /\ bi.pc = "done" /\ bi.status = "resolved"
  /\ Len(bi.items) = 3 /\ bi.batchSize = 2
  /\ Len(bi.progress) = 2

\* the chunks partition the items in order, one statement is sent per chunk,
\* and chunk k+1 is started only after chunk k's insert has completed and its
\* progress signal is out
RECURSIVE ChunkLog(_, _)
ChunkLog(k, upTo) ==
  IF k > upTo THEN << >>
  ELSE <<BatchEv("insertStart", k), BatchEv("insertEnd", k), BatchEv("batchProgress", k)>>
       \o ChunkLog(k + 1, upTo)

C14_ChunksInOrder ==
  LET n == Len(bi.items)
      c == bi.batchSize
  IN bi.kind = "batchInsert" =>
     /\ \A k \in 1..Len(bi.chunks) :
          /\ bi.chunks[k].start = (k - 1) * c
          /\ bi.chunks[k].end = Min(k * c, n)
          /\ bi.chunks[k].rows = SubSeq(bi.items, (k - 1) * c + 1, Min(k * c, n))
          /\ Len(bi.chunks[k].rows) >= 1
     /\ (bi.pc = "done" /\ bi.status = "resolved") => bi.chunks[Len(bi.chunks)].end = n
     /\ bi.pc = "insertMany"
        => bi.log = ChunkLog(1, bi.i) \o <<BatchEv("insertStart", bi.i + 1)>>
     /\ (bi.pc = "done" /\ bi.status = "resolved") => bi.log = ChunkLog(1, bi.batches)

\* C14: batchInsert cuts the items into consecutive chunks that partition the
\* input in order, every chunk of size chunkSize except possibly the last,
\* executes exactly one multi-row insert statement per chunk, and never starts
\* the insert of chunk k+1 before the insert of chunk k has completed and its
\* progress signal has been emitted.
C14_OneInsertPerChunk ==
  /\ C14_ChunksInOrder
  /\ \A k \in 1..Len(bi.chunks) :
       (k < Len(bi.chunks) \/ (bi.pc = "done" /\ bi.status = "resolved"))
       => bi.chunks[k].execs = 1

\* without the cache every chunk's statement is executed
C14_HoldsWithoutCache == ~cacheEnabled => C14_OneInsertPerChunk

\* C15: at every moment of a batchProcess at most `concurrency` processor
\* invocations are in flight, all of them chunks of the current window, and
\* a window is started only when every chunk of the windows before it has
\* completed.
C15_BoundedConcurrency ==
  /\ Cardinality(bp.inflight) <= bp.concurrency
  /\ \A k \in bp.inflight : bp.i <= k /\ k < bp.i + bp.concurrency
  /\ bp.started <= bp.i + bp.concurrency
  /\ \A k \in 0..(bp.i - 1) : k \notin bp.inflight /\ k \notin bp.failed

C15_Witness ==
  /\ bp.concurrency = 2
  /\ bp.i = 2
  /\ bp.inflight = {2, 3}

\* the windows a resolved or still running call has completed
WindowsDone(r) == r.i \div r.concurrency

\* what follows a rejection: batchProcess has rejected, nothing beyond the
\* failing window was started, progress was reported for the windows before
\* the failing one only
AfterRejection(r) ==
  /\ r.pc = "done" /\ r.status = "rejected"
  /\ r.started = WindowEnd(r, r.i)
  /\ Len(r.progress) = (IF r.onProgress THEN WindowsDone(r) ELSE 0)

\* C16 as stated: whichever chunk the processor rejects for, batchProcess
\* rejects with that chunk's rejection, no chunk of a later window is started
\* and no progress is reported for the failing window or a later one.
C16_AsStated ==
  \A k \in bp.failed : bp.rejection = k /\ AfterRejection(bp)

\* C16 (amended): if the processor rejects for some chunk, batchProcess
\* rejects with the rejection of the first chunk that failed (a later
\* rejection in the same window changes nothing), no chunk of a later window
\* is ever started and no progress is reported for the failing window or a
\* later one.
C16_FirstRejectionAborts ==
  /\ [](bp.failed # {} => (bp.rejection \in bp.failed /\ AfterRejection(bp)))
  /\ [](bp.status = "rejected" => bp.failed # {})
  /\ [][/\ (bp.failed = {} /\ bp'.failed # {}) => bp'.failed = {bp'.rejection}
        /\ bp.failed # {}
           => /\ bp'.rejection = bp.rejection
              /\ bp'.started = bp.started
              /\ bp'.progress = bp.progress]_vars

C16_Witness ==
  /\ bp.status = "rejected"
  /\ bp.failed = {2, 3}
  /\ bp.onProgress /\ Len(bp.progress) = 1

\* round(100 * a / b), a half going up
RoundedPercent(a, b) == (200 * a + b) \div (2 * b)

\* onProgress is called once per completed window, with processed =
\* min(j * concurrency * batchSize, n) and total = n in the j-th call
C17_OncePerWindow ==
  (bp.onProgress /\ bp.n >= 1)
  => /\ \A j \in 1..Len(bp.progress) :
          /\ bp.progress[j].processed = Min(j * bp.concurrency * bp.batchSize, bp.n)
          /\ bp.progress[j].total = bp.n
          /\ j > 1 => bp.progress[j - 1].processed <= bp.progress[j].processed
     /\ bp.pc = "window" => Len(bp.progress) = WindowsDone(bp)
     /\ (bp.pc = "done" /\ bp.status = "resolved")
        => /\ Len(bp.progress) = Ceil(bp.nchunks, bp.concurrency)
           /\ bp.progress[Len(bp.progress)] =
                [processed |-> bp.n, total |-> bp.n, percentage |-> 100]

\* C17: in a batchProcess over n >= 1 items that succeeds, onProgress is
\* called once per completed window (ceil(numChunks/concurrency) calls), the
\* j-th call reporting processed = min(j*concurrency*batchSize, n), total = n
\* and percentage = round(100*processed/n); processed never decreases, never
\* exceeds n, and the last call reports processed = n and percentage = 100.
C17_ProgressReports ==
  /\ C17_OncePerWindow
  /\ (bp.onProgress /\ bp.n >= 1)
     => \A j \in 1..Len(bp.progress) :
          bp.progress[j].percentage = RoundedPercent(bp.progress[j].processed, bp.n)

\* the attempt numbers of the events `name` in a connect call's trace
AttemptsOf(trace, name) ==
  LET Test(e) == e.ev = name
      sel == SelectSeq(trace, Test)
  IN [i \in 1..Len(sel) |-> sel[i].attempt]

UpTo(k) == [i \in 1..k |-> i]

C19_Bounded ==
  \A c \in ConnectCalls :
    LET r == cn[c]
    IN /\ r.attempts <= config.retryAttempts
       /\ AttemptsOf(r.trace, "attempt") = UpTo(r.attempts)
       /\ r.pc \in {"connecting", "sleeping"} => r.attempt = r.attempts
       \* one connectionRetry for each failed attempt that another one follows
       /\ AttemptsOf(r.trace, "connectionRetry")
            = UpTo(IF r.pc = "sleeping" THEN r.attempts
                   ELSE IF r.attempts = 0 THEN 0 ELSE r.attempts - 1)
       /\ (r.pc = "done" /\ r.status = "resolved" /\ r.attempts > 0)
          => /\ r.value = [by |-> c, attempt |-> r.attempts]
             /\ r.trace[Len(r.trace)] = ConnEv("connected", r.attempts, 0)
             /\ connection
       /\ (r.pc = "done" /\ r.status = "rejected")
          => /\ r.attempts = config.retryAttempts
             /\ r.message = r.attempts
             /\ AttemptsOf(r.trace, "connected") = << >>

\* C19: a connect() that has to establish the connection makes at most
\* retryAttempts attempts; it returns the connection of the first attempt
\* that succeeds, emits connectionRetry once for each failed attempt that is
\* followed by another one, after retryAttempts failures in a row rejects
\* with the attempt count in the message, and always comes to an end.
C19_ConnectRetriesBounded ==
  /\ []C19_Bounded
  /\ \A c \in ConnectCalls : (cn[c].pc # "idle") ~> (cn[c].pc = "done")

C19_Witness ==
  /\ config.retryAttempts = 3
  /\ cn[1].status = "rejected" /\ cn[1].attempts = 3
  /\ cn[2].status = "resolved" /\ cn[2].value = [by |-> 2, attempt |-> 2]

SameKey(a, b) == _getCacheKey(q[a].sql, q[a].params) = _getCacheKey(q[b].sql, q[b].params)

\* the step in which call c writes its result to the cache
CacheWrite(c) ==
  q[c].pc = "afterQuery" /\ q'[c].pc = "done" /\ cacheEnabled /\ q[c].opts.cache

\* C20: two concurrent query() calls with the same sql and params that both
\* missed the cache both execute and both write the entry of their key; every
\* write replaces the entry by the writer's result, so once both are through
\* the entry holds the result of the call that wrote last; and neither
\* call is rejected without a failure of its own.
C20_LastWriteWins ==
  /\ [](\A a, b \in QueryCalls :
          (/\ a # b /\ SameKey(a, b)
           /\ cacheEnabled
           /\ q[a].opts.cache /\ q[b].opts.cache
           /\ q[a].status = "resolved" /\ q[b].status = "resolved"
           /\ q[a].execs = 1 /\ q[b].execs = 1)
          => /\ _getCacheKey(q[a].sql, q[a].params) \in DOMAIN cache
             /\ cache[_getCacheKey(q[a].sql, q[a].params)].data \in {q[a].rows, q[b].rows}
             /\ HasEv(q[a].trace, "queryExecuted") /\ HasEv(q[b].trace, "queryExecuted"))
  /\ [](\A a \in QueryCalls : q[a].status = "rejected" => q[a].error # NoErr)
  /\ [][/\ \A c \in QueryCalls :
             CacheWrite(c)
             => cache'[_getCacheKey(q[c].sql, q[c].params)].data = q[c].rows
        /\ \A key \in DOMAIN cache \cap DOMAIN cache' :
             cache'[key].data # cache[key].data
             => \E c \in QueryCalls :
                  CacheWrite(c) /\ key = _getCacheKey(q[c].sql, q[c].params)]_vars

C20_Witness ==
  /\ cacheEnabled
  /\ SameKey(1, 2)
  /\ q[1].status = "resolved" /\ q[2].status = "resolved"
  /\ q[1].execs = 1 /\ q[2].execs = 1
  /\ q[1].opts.cache /\ q[2].opts.cache
  /\ q[1].params = q[2].params
  /\ cache[_getCacheKey(q[1].sql, q[1].params)].data = q[1].rows

\* C21: addHook with a name that is not a stage throws synchronously and
\* leaves every stage's list as it was; addHook with a stage appends the
\* callback at the end of that stage's list, changes no other stage and does
\* not throw.
AddHookStep(name, cb) ==
  /\ ah'.name = name
  /\ ah'.cb = cb
  /\ (ah' # ah \/ hooks' # hooks)

C21_AddHook ==
  [][\A name \in HookNames, cb \in Callbacks :
       AddHookStep(name, cb)
       => IF name \in Stages
          THEN /\ hooks' = [hooks EXCEPT ![name] = Append(@, cb)]
               /\ ah'.threw = "none"
          ELSE /\ hooks' = hooks
               /\ ah'.threw # "none"]_vars

C21_Witness ==
  /\ ah.name \notin Stages
  /\ ah.threw = "Error"
  /\ hooks["onError"] = <<"h1", "h2">>

\* C22: batchInsert and insertMany called with an empty or a missing array
\* reject at once: query() is not called (so no hook runs and no statement is
\* executed), the cache is untouched and no batchProgress is emitted.
C22_EmptyInputRejects ==
  [][(bi.pc = "idle" /\ bi'.pc # "idle" /\ (~bi'.given \/ bi'.items = << >>))
     => /\ bi'.pc = "done"
        /\ bi'.status = "rejected"
        /\ bi'.progress = << >>
        /\ bi'.log = << >>
        /\ q' = q
        /\ q[1] = IdleCall
        /\ cache' = cache]_vars

C22_Witness ==
  /\ bi.kind = "batchInsert"
  /\ bi.given
  /\ bi.items = << >>
  /\ bi.status = "rejected"

C22_WitnessMissing ==
  /\ bi.kind = "insertMany"
  /\ ~bi.given
  /\ bi.status = "rejected"

\* the least number of pages of perPage rows that hold total rows
PagesFor(total, perPage) ==
  CHOOSE k \in 0..total : k * perPage >= total /\ (k = 0 \/ (k - 1) * perPage < total)

ExpectedPagination(page, perPage, total) ==
  [currentPage |-> page, perPage |-> perPage, totalItems |-> total,
   totalPages |-> PagesFor(total, perPage),
   hasNextPage |-> page < PagesFor(total, perPage), hasPrevPage |-> page > 1]

\* C23: for page >= 1, perPage >= 1 and T rows matching the filter, paginate
\* returns currentPage = page, perPage, totalItems = T, totalPages =
\* ceil(T/perPage), hasNextPage = (page < totalPages), hasPrevPage = (page > 1)
\* and asks for the page with LIMIT perPage OFFSET (page-1)*perPage.  Here for
\* QueryBuilder.paginate, T being the count the server has for the filter.
C23_BuilderPaginate ==
  (op.kind = "paginate" /\ op.phase = 0 /\ op.status = "resolved")
  => /\ op.pagination = ExpectedPagination(op.page, op.perPage, op.counted)
     /\ EndsWith(issued[2].sql,
                 <<"LIMIT", ToString(op.perPage),
                   "OFFSET", ToString((op.page - 1) * op.perPage)>>)

\* QueryBuilder.paginate on a builder on which offset() was not called
C23_BuilderWithoutOffset == (op.atCall._offset = NoNum) => C23_BuilderPaginate

\* the same for MySQLHelper.paginate, which leaves the OFFSET clause out
\* when the offset is 0
C23_HelperPaginate ==
  (pg.pc = "done" /\ pg.status = "resolved")
  => /\ pg.pagination = ExpectedPagination(pg.page, pg.perPage, pg.totalCount)
     /\ IF pg.page = 1
        THEN EndsWith(pg.issued[2].sql, <<"LIMIT", ToString(pg.perPage)>>)
        ELSE EndsWith(pg.issued[2].sql,
                      <<"LIMIT", ToString(pg.perPage),
                        "OFFSET", ToString((pg.page - 1) * pg.perPage)>>)
     /\ pg.issued[1] = [sql |-> <<"SELECT", "COUNT(*) as count", "FROM", "t">>
                                \o WhereClause(pg.where),
                        params |-> pg.where]
     /\ pg.issued[2].params = pg.where

C23_HelperWitness ==
  /\ pg.pc = "done" /\ pg.status = "resolved"
  /\ pg.page = 2 /\ pg.perPage = 2 /\ pg.totalCount = 3
  /\ pg.pagination.hasPrevPage /\ ~pg.pagination.hasNextPage

\* a token sequence without its empty tokens: the text up to white space
RECURSIVE NonBlank(_)
NonBlank(tokens) ==
  IF tokens = << >> THEN << >>
  ELSE (IF Head(tokens) = "" THEN << >> ELSE <<Head(tokens)>>) \o NonBlank(Tail(tokens))

OrWhereStep ==
  /\ Len(calls') = Len(calls) + 1
  /\ calls'[Len(calls')].name = "orWhere"

\* C24: orWhere on a builder without a predicate appends a fragment without
\* OR, and the statement compiles as after a plain where; with an earlier
\* predicate the appended fragment begins with OR.  Either way one fragment
\* and one parameter are appended and nothing else changes.
C24_OrWhere ==
  [][OrWhereStep
     => LET n == Len(qb._where)
            v == calls'[Len(calls')].vals
            frag == qb'._where[n + 1]
        IN /\ Len(v) = 1
           /\ Len(qb'._where) = n + 1
           /\ SubSeq(qb'._where, 1, n) = qb._where
           /\ qb'._whereParams = qb._whereParams \o v
           /\ [qb' EXCEPT !._where = qb._where, !._whereParams = qb._whereParams] = qb
           /\ IF n = 0
              THEN /\ NonBlank(frag) = <<"a", "=", "?">>
                   /\ NonBlank(toSQL(qb').sql) = NonBlank(toSQL(where(qb, "a", "=", v[1])).sql)
                   /\ toSQL(qb').params = toSQL(where(qb, "a", "=", v[1])).params
              ELSE frag = <<"OR", "a", "=", "?">>]_vars

C24_Witness ==
  /\ Len(calls) = 3
  /\ calls[1].name = "orWhere" /\ calls[2].name = "join" /\ calls[3].name = "orWhere"
  /\ Len(qb._where) = 2
  /\ qb._where[2][1] = "OR"

\* a step of call c
StepOf(c) == q[c].pc # "idle" /\ q'[c] # q[c]

C25_NoCacheUse ==
  \A c \in QueryCalls :
    (q[c].pc # "idle" /\ ~(cacheEnabled /\ q[c].opts.cache))
    => /\ ~HasEv(q[c].trace, "cacheHit")
       /\ (q[c].pc = "done" /\ q[c].status = "resolved")
          => (q[c].value = c /\ q[c].execs = 1)

C25_CacheUntouched ==
  \A c \in QueryCalls :
    /\ (StartsNow(c) /\ ~(cacheEnabled /\ q'[c].opts.cache))
       => (cache' = cache /\ q'[c].pc # "done")
    /\ (StepOf(c) /\ ~(cacheEnabled /\ q[c].opts.cache)) => cache' = cache

\* C25: a query() with options.cache === false, or any query() of a helper
\* whose cache is disabled, never returns a cached value (it resolves with the
\* rows of its own execution), never emits cacheHit and leaves the cache map
\* as it is (no eviction on read, no write), even when an unexpired entry
\* for its key exists.
C25_CacheDisabled == []C25_NoCacheUse /\ [][C25_CacheUntouched]_vars

C25_Witness ==
  LET key == _getCacheKey(q[2].sql, q[2].params)
  IN /\ cacheEnabled
     /\ ~q[2].opts.cache
     /\ q[2].pc = "done" /\ q[2].status = "resolved"
     /\ SameKey(1, 2)
     /\ key \in DOMAIN cache
     /\ now < cache[key].expiry
     /\ cache[key].data = 1

\* every callback of a stage started and ended, one after the other
RECURSIVE HookPairs(_, _)
HookPairs(stage, cbs) ==
  IF cbs = << >> THEN << >>
  ELSE <<Ev("hookStart", stage, Head(cbs), NoErr), Ev("hookEnd", stage, Head(cbs), NoErr)>>
       \o HookPairs(stage, Tail(cbs))

One(name) == <<Ev(name, "-", "-", NoErr)>>

\* the steps of a successful call r that was not answered from the cache
PipelineOf(r) ==
  (IF cacheEnabled /\ r.opts.cache THEN One("cacheMiss") ELSE << >>)
  \o HookPairs("beforeQuery", hooks["beforeQuery"])
  \o One("execute") \o One("executeEnd")
  \o (IF config.logQueries THEN One("queryLog") ELSE << >>)
  \o HookPairs("afterQuery", hooks["afterQuery"])
  \o (IF cacheEnabled /\ r.opts.cache THEN One("cacheWrite") ELSE << >>)
  \o One("queryExecuted")

\* C26: within one successful, uncached query() the steps come strictly in
\* this order, each over before the next begins: cache lookup, all
\* beforeQuery hooks, statement execution, query-log append (if logging), all
\* afterQuery hooks, cache write (if caching), queryExecuted.
C26_PipelineOrder ==
  LET r == q[1]
  IN r.pc # "idle"
     => /\ r.error = NoErr => IsPrefix(r.trace, PipelineOf(r))
        /\ (r.pc = "done" /\ r.status = "resolved")
           => /\ r.trace = PipelineOf(r)
              /\ r.execs = 1
        /\ queryLog = IF config.logQueries /\ HasEv(r.trace, "queryLog")
                      THEN <<[sql |-> r.sql, params |-> r.params]>> ELSE << >>
        /\ (_getCacheKey(r.sql, r.params) \in DOMAIN cache) = HasEv(r.trace, "cacheWrite")

C26_Witness ==
  /\ q[1].pc = "done" /\ q[1].status = "resolved"
  /\ cacheEnabled /\ q[1].opts.cache /\ config.logQueries
  /\ hooks["beforeQuery"] = <<"h1", "h2">>
  /\ hooks["afterQuery"] = <<"h2", "h1">>
  /\ Len(q[1].trace) = 14

Settled == op.kind # "none" /\ op.phase = 0 /\ op.status \in {"resolved", "rejected"}

\* C27: after any terminal operation (get, first, count, exists, paginate)
\* has settled, resolved or rejected, the builder is in its initial empty
\* state: columns are ['*'] after count() on a builder with a custom column
\* list, and the clauses are gone after a get() whose execution failed.
C27_TerminalResets == Settled => qb = reset

\* what the code does: a resolved get, first or paginate leaves the initial
\* state; a resolved count or exists leaves the initial state but for the
\* column list, which is the one of before the call
C27_ResetsWhenResolved ==
  (Settled /\ op.status = "resolved")
  => qb = IF op.kind \in {"count", "exists"}
          THEN [reset EXCEPT !._columns = op.atCall._columns]
          ELSE reset

\* a rejected get or first leaves the builder as compiled
C27_KeptWhenRejected ==
  (Settled /\ op.status = "rejected" /\ op.kind \in {"get", "first"})
  => qb = IF op.kind = "first" THEN limit(op.atCall, 1) ELSE op.atCall

\* C28: with caching enabled every mutating call that goes through query()
\* executes its statement each time it is called: a delete(table, where)
\* repeated with the same arguments within the TTL is executed both times and
\* never answered from the cache.
C28_MutationsExecute ==
  \A c \in QueryCalls :
    (q[c].pc = "done" /\ q[c].status = "resolved")
    => /\ q[c].execs = 1
       /\ ~HasEv(q[c].trace, "cacheHit")

\* on a helper without cache every delete is executed
C28_ExecutesWithoutCache == ~cacheEnabled => C28_MutationsExecute

\* C29: every connection that transaction() obtained from the pool has been
\* released back to it once the call has settled, also when
\* conn.beginTransaction() failed after the connection was acquired.
C29_AlwaysReleased ==
  \A t \in TxCalls :
    (tx[t].pc = "done" /\ tx[t].conn \in PoolConns)
    => tx[t].released = 1

\* a settled call released its pooled connection exactly when the transaction
\* had begun; after a failed conn.beginTransaction() it is still checked out
C29_ReleasedIffBegun ==
  \A t \in TxCalls :
    (tx[t].pc = "done" /\ tx[t].conn \in PoolConns)
    => /\ tx[t].began => tx[t].released = 1
       /\ ~tx[t].began => tx[t].released = 0 /\ checkedOut[tx[t].conn]

\* the connect() calls that created a connection
Creators == {c \in ConnectCalls : AttemptsOf(cn[c].trace, "connected") # << >>}

\* C30: however connect() calls interleave, at most one connection is
\* created, every caller receives that same connection, and no created
\* connection is left without a reference on the helper.
C30_OneConnection ==
  /\ Cardinality(Creators) <= 1
  /\ \A c, d \in ConnectCalls :
        (cn[c].status = "resolved" /\ cn[d].status = "resolved")
        => cn[c].value = cn[d].value
  /\ \A c \in Creators : cn[c].stored

\* a call that found a connection stored creates none and returns the stored
\* one; a call that found none returns the connection it created itself, and
\* the helper keeps the one assigned last
C30_EachCallerItsOwn ==
  /\ connection <=> Creators # {}
  /\ Cardinality({c \in ConnectCalls : cn[c].stored}) <= 1
  /\ \A c \in ConnectCalls :
        cn[c].status = "resolved"
        => IF cn[c].attempts = 0
           THEN cn[c].value.by \in Creators \ {c}
           ELSE c \in Creators /\ cn[c].value.by = c

\* the position of the last event `name` in a trace, 0 if there is none
LastEv(trace, name) ==
  LET at == {i \in 1..Len(trace) : trace[i].ev = name}
  IN IF at = {} THEN 0 ELSE CHOOSE i \in at : \A j \in at : j <= i

\* call a read its rows from the database and the cache was cleared after
\* that, before a was through
ReadBeforeClear(a) ==
  /\ LastEv(q[a].trace, "executeEnd") > 0
  /\ LastEv(q[a].trace, "cacheCleared") > LastEv(q[a].trace, "executeEnd")

\* C31: once clearCache() has completed, no later query() is answered from
\* the cache with a result that was read from the database before the clear,
\* also when another query() was between its cache miss and its cache write
\* while the clear happened.
C31_NoStaleAfterClear ==
  \A a, b \in QueryCalls :
    (/\ a # b
     /\ HasEv(q[b].trace, "cacheHit")
     /\ q[b].value = q[a].rows
     /\ SameKey(a, b))
    => ~ReadBeforeClear(a)

\* the step in which cacheCleared is signalled leaves the cache empty, and a
\* call answered from the cache with rows that were read before a clear got
\* them from a call that wrote after that clear
C31_ClearEmpties ==
  /\ [][(\E c \in QueryCalls :
           LastEv(q'[c].trace, "cacheCleared") > LastEv(q[c].trace, "cacheCleared"))
        => cache' = << >>]_vars
  /\ [](\A a, b \in QueryCalls :
          (/\ a # b /\ HasEv(q[b].trace, "cacheHit") /\ q[b].value = q[a].rows
           /\ SameKey(a, b) /\ ReadBeforeClear(a))
          => LastEv(q[a].trace, "cacheWrite") > LastEv(q[a].trace, "cacheCleared"))

\* C32: in every statement toSQL() compiles two adjacent predicate fragments
\* are combined by exactly one connective: where(A) followed by orWhere(B)
\* gives a WHERE clause that joins A and B by OR alone, never by AND OR.
C32_OneConnective ==
  LET sql == toSQL(qb).sql
  IN \A i \in 1..(Len(sql) - 1) : ~(sql[i] = "AND" /\ sql[i + 1] = "OR")

\* the fragments are joined by AND whatever they begin with: AND OR stands
\* exactly before the fragments an orWhere added after an earlier predicate
C32_AndBeforeEveryFragment ==
  LET sql == toSQL(qb).sql
  IN /\ Cardinality({i \in 1..(Len(sql) - 1) : sql[i] = "AND" /\ sql[i + 1] = "OR"})
          = Cardinality({j \in 1..Len(qb._where) : qb._where[j][1] = "OR"})
     /\ \A j \in 1..Len(qb._where) : qb._where[j][1] = "OR" => j > 1

\* C33: the total QueryBuilder.count() returns is the number of rows that
\* match the builder's table, joins and predicates, whatever limit or offset
\* was set on the builder before: a positive offset does not change it.
C33_CountIgnoresLimitOffset ==
  (op.kind = "count" /\ op.phase = 0 /\ op.status = "resolved")
  => op.value = op.counted

\* count() returns the server's count when the builder has no positive
\* offset, and 0 when it has one; a limit set before never matters
C33_CountUnlessOffset ==
  (op.kind = "count" /\ op.phase = 0 /\ op.status = "resolved")
  => /\ op.value = (IF op.atCall._offset >= 1 THEN 0 ELSE op.counted)
     /\ issued[1].sql = <<"SELECT">> \o CountColumns \o FromWhere(op.atCall)
                         \o <<"LIMIT", "1">>
                         \o (IF op.atCall._offset # NoNum
                             THEN <<"OFFSET", ToString(op.atCall._offset)>>
                             ELSE << >>)

\* C34: if chunk k of a batchInsert fails, batchInsert rejects, no insert is
\* attempted for a chunk after k, exactly k-1 batchProgress signals have been
\* emitted, and the rows of chunks 1..k-1 are inserted: success ends at a
\* chunk boundary.
C34_FailureAtChunkBoundary ==
  (bi.kind = "batchInsert" /\ bi.pc = "done" /\ q[1].status = "rejected")
  => LET k == Len(bi.chunks)
     IN /\ bi.status = "rejected"
        /\ bi.log = ChunkLog(1, k - 1)
                     \o <<BatchEv("insertStart", k), BatchEv("insertFailed", k)>>
        /\ bi.progress = ProgressUpTo(k - 1, Len(bi.items), bi.batchSize)
        /\ bi.chunks[k].execs = 1
        /\ \A j \in 1..(k - 1) : bi.chunks[j].execs = 1

\* the same on a helper without cache
C34_HoldsWithoutCache == ~cacheEnabled => C34_FailureAtChunkBoundary

\* with the cache, everything but the inserts of the chunks before k
C34_StopsAtFailedChunk ==
  (bi.kind = "batchInsert" /\ bi.pc = "done" /\ q[1].status = "rejected")
  => LET k == Len(bi.chunks)
     IN /\ bi.status = "rejected"
        /\ bi.log = ChunkLog(1, k - 1)
                     \o <<BatchEv("insertStart", k), BatchEv("insertFailed", k)>>
        /\ bi.progress = ProgressUpTo(k - 1, Len(bi.items), bi.batchSize)

\* the waits of a connect call, in order
DelaysOf(trace) ==
  LET Test(e) == e.ev = "connectionRetry"
      sel == SelectSeq(trace, Test)
  IN [i \in 1..Len(sel) |-> sel[i].delay]

\* C35: connection retries use exponential backoff: the first wait is
\* retryDelay and each further wait is the previous one times a constant
\* factor greater than 1.
C35_ExponentialBackoff ==
  \A c \in ConnectCalls :
    LET w == DelaysOf(cn[c].trace)
    IN /\ Len(w) >= 1 => w[1] = config.retryDelay
       /\ \A i \in 1..(Len(w) - 1) : w[i + 1] > w[i]
       /\ \A i \in 2..(Len(w) - 1) : w[i + 1] * w[i - 1] = w[i] * w[i]

\* the wait after failed attempt number a is retryDelay * a
C35_LinearBackoff ==
  \A c \in ConnectCalls :
    LET w == DelaysOf(cn[c].trace)
    IN \A i \in 1..Len(w) : w[i] = config.retryDelay * i

RemoveHookStep(name, cb) ==
  /\ ah'.call = "removeHook"
  /\ ah'.name = name
  /\ ah'.cb = cb
  /\ (ah' # ah \/ hooks' # hooks)

\* C36: removeHook called with a name that is not a stage fails
\* synchronously, as addHook does, and does not return silently.
C36_RemoveHookRejectsUnknown ==
  [][\A name \in HookNames \ Stages, cb \in Callbacks :
       RemoveHookStep(name, cb) => ah'.threw # "none" /\ hooks' = hooks]_vars

\* removeHook takes every occurrence of the callback out of a stage's list
\* and leaves the other stages alone; with a name that is no stage it changes
\* nothing, and throws (a TypeError) only for a name the hooks table inherits
C36_RemoveHook ==
  [][\A name \in HookNames, cb \in Callbacks :
       RemoveHookStep(name, cb)
       => IF name \in Stages
          THEN /\ \A s \in Stages \ {name} : hooks'[s] = hooks[s]
               /\ \A i \in 1..Len(hooks'[name]) : hooks'[name][i] # cb
               /\ Len(hooks'[name])
                    = Cardinality({i \in 1..Len(hooks[name]) : hooks[name][i] # cb})
               /\ ah'.threw = "none"
          ELSE /\ hooks' = hooks
               /\ ah'.threw = (IF name = "constructor" THEN "TypeError" ELSE "none")]_vars

\* an afterQuery hook of the call threw
AfterQueryThrew(r) ==
  \E i \in DOMAIN r.trace :
    /\ r.trace[i].ev = "hookEnd"
    /\ r.trace[i].stage = "afterQuery"
    /\ r.trace[i].err # NoErr

\* C37: if an afterQuery hook throws after the statement was executed
\* successfully, query() rejects, the result is not written to the cache and
\* queryExecuted is not emitted, while the statement was executed and, with
\* logging enabled, its entry is in the query log.
C37_AfterQueryHookThrows ==
  LET r == q[1]
  IN AfterQueryThrew(r)
     => /\ r.pc = "done" => r.status = "rejected" /\ r.rejection.cause.src = "afterQuery"
        /\ r.status # "resolved"
        /\ ~HasEv(r.trace, "cacheWrite")
        /\ _getCacheKey(r.sql, r.params) \notin DOMAIN cache
        /\ ~HasEv(r.trace, "queryExecuted")
        /\ r.execs = 1
        /\ r.trace[LastEv(r.trace, "executeEnd")].err = NoErr
        /\ queryLog = IF config.logQueries
                      THEN <<[sql |-> r.sql, params |-> r.params]>> ELSE << >>

C37_Witness ==
  /\ AfterQueryThrew(q[1])
  /\ q[1].pc = "done" /\ q[1].status = "rejected"
  /\ cacheEnabled /\ q[1].opts.cache /\ config.logQueries
  /\ Len(queryLog) = 1

\* call c hands its statement to an executor in this step
Dispatches(c) == q[c].pc \in {"beforeQuery", "createPool"} /\ q'[c].pc = "execute"

\* C38: query() executes on the pool if there is one, else on the single
\* connection if there is one, else creates a pool first and executes on it;
\* however query() and createPool() calls interleave, at most one pool is
\* created.
C38_PoolFirst ==
  /\ [](poolsCreated <= 1)
  /\ [](\A c \in QueryCalls :
          q[c].conn # NoConn => (q[c].via = "pool" <=> q[c].conn \in PoolConns))
  /\ [][/\ pool => pool' /\ poolsCreated' = poolsCreated
        /\ poolsCreated' # poolsCreated => ~pool /\ pool' /\ poolsCreated' = 1
        /\ \A c \in QueryCalls :
             /\ Dispatches(c)
                => /\ q'[c].via = (IF pool' THEN "pool" ELSE "connection")
                   /\ pool' \/ connection'
             /\ (q[c].pc = "beforeQuery" /\ q'[c].pc = "execute")
                => pool \/ connection
             /\ (q[c].pc = "beforeQuery" /\ q'[c].pc = "createPool")
                => ~pool /\ ~connection /\ pool' /\ poolsCreated' = 1]_vars

C38_Witness ==
  /\ poolsCreated = 1 /\ ~connection
  /\ \A c \in QueryCalls :
       q[c].pc = "done" /\ q[c].execs = 1 /\ q[c].via = "pool"

\* call c's execute resolves in this step
Executed(c) == q[c].pc = "execute" /\ q'[c].pc = "afterQuery"

\* C39: with query logging enabled the log gains exactly one entry for every
\* statement that was executed successfully, when its execution completes,
\* and none for a cache hit or a failed execution; it shrinks only through
\* clearQueryLog(), which empties it.
C39_QueryLog ==
  [][IF \E c \in QueryCalls : Executed(c)
     THEN \E c \in QueryCalls :
            /\ Executed(c)
            /\ q'[c].trace[LastEv(q'[c].trace, "executeEnd")].err = NoErr
            /\ queryLog' = Append(queryLog, [sql |-> q[c].sql, params |-> q[c].params])
     ELSE \/ queryLog' = queryLog
          \/ /\ queryLog' = << >>
             /\ UNCHANGED <<qvars, poolsCreated>>]_vars

C39_Witness ==
  /\ Len(queryLog) = 1
  /\ q[1].pc = "done" /\ q[1].execs = 1 /\ q[1].status = "rejected"
  /\ q[2].pc = "done" /\ q[2].execs = 1 /\ q[2].status = "resolved"
  /\ queryLog[1] = [sql |-> q[2].sql, params |-> q[2].params]

====
